---- MODULE Spec2Model ----
(***************************************************************************)
(* The undo engine of git-branchless (src/commands/undo.rs): the event     *)
(* log, the live repository's references, and undo_events, which inverts   *)
(* the suffix of the log after a cursor and applies the inverse events.    *)
(***************************************************************************)
EXTENDS Integers, Sequences, FiniteSets, TLC

(* ------------------------------ bounds -------------------------------- *)

\* Events a user may record before and between undos.
MaxLog == 3
\* Rows of the transaction table: a call of undo_events needs room for one.
MaxTx == 4
\* Length of the event sequences handed to optimize_inverse_events alone.
MaxSeq == 3
\* The most key presses and dialog submissions the user makes in the selector.
MaxKeys == 3

(* ------------------------------ values -------------------------------- *)

Oids == {"o1", "o2"}
HEAD == "HEAD"
BranchNames == {"refs/heads/b"}
RefNames == {HEAD} \cup BranchNames

\* Option<T>: None, or Some(x).
None == <<>>
Some(x) == <<x>>
IsSome(o) == o # None
Unwrap(o) == o[1]
OptOids == {None} \cup {Some(o) : o \in Oids}
Messages == {None, Some("msg")}

(* ------------------------------ events -------------------------------- *)

CommitEvent(timestamp, event_tx_id, commit_oid) ==
    [type |-> "commit", timestamp |-> timestamp, event_tx_id |-> event_tx_id,
     commit_oid |-> commit_oid]

HideEvent(timestamp, event_tx_id, commit_oid) ==
    [type |-> "hide", timestamp |-> timestamp, event_tx_id |-> event_tx_id,
     commit_oid |-> commit_oid]

UnhideEvent(timestamp, event_tx_id, commit_oid) ==
    [type |-> "unhide", timestamp |-> timestamp, event_tx_id |-> event_tx_id,
     commit_oid |-> commit_oid]

RewriteEvent(timestamp, event_tx_id, old_commit_oid, new_commit_oid) ==
    [type |-> "rewrite", timestamp |-> timestamp, event_tx_id |-> event_tx_id,
     old_commit_oid |-> old_commit_oid, new_commit_oid |-> new_commit_oid]

RefUpdateEvent(timestamp, event_tx_id, ref_name, old_ref, new_ref, message) ==
    [type |-> "ref-move", timestamp |-> timestamp, event_tx_id |-> event_tx_id,
     ref_name |-> ref_name, old_ref |-> old_ref, new_ref |-> new_ref,
     message |-> message]

IsRefUpdate(event) == event.type = "ref-move"

\* The pattern `Event::RefUpdateEvent { ref_name, .. } if ref_name == "HEAD"`.
IsHeadUpdate(event) == IsRefUpdate(event) /\ event.ref_name = HEAD

\* Every event with the given metadata.
EventsWith(ts, tx) ==
    {CommitEvent(ts, tx, o) : o \in Oids}
    \cup {HideEvent(ts, tx, o) : o \in Oids}
    \cup {UnhideEvent(ts, tx, o) : o \in Oids}
    \cup {RewriteEvent(ts, tx, a, b) : a \in Oids, b \in Oids}
    \cup {RefUpdateEvent(ts, tx, n, o, v, m) :
             n \in RefNames, o \in OptOids, v \in OptOids, m \in Messages}

(* --------------------------- sequence helpers ------------------------- *)

Reverse(s) == [i \in 1..Len(s) |-> s[Len(s) + 1 - i]]

(* ------------------------- inverse computation ------------------------ *)

\* inverse_event with Hide inverted to Hide.
inverse_event_hide_twice(event, now, event_tx_id) ==
    CASE event.type \in {"commit", "unhide", "hide"} ->
            HideEvent(now, event_tx_id, event.commit_oid)
      [] event.type = "rewrite" ->
            RewriteEvent(now, event_tx_id, event.new_commit_oid, event.old_commit_oid)
      [] event.type = "ref-move" ->
            RefUpdateEvent(now, event_tx_id, event.ref_name, event.new_ref,
                           event.old_ref, None)

\* inverse_event with the timestamp of the inverted event kept.
inverse_event_keep_time(event, now, event_tx_id) ==
    CASE event.type \in {"commit", "unhide"} ->
            HideEvent(event.timestamp, event_tx_id, event.commit_oid)
      [] event.type = "hide" ->
            UnhideEvent(event.timestamp, event_tx_id, event.commit_oid)
      [] event.type = "rewrite" ->
            RewriteEvent(event.timestamp, event_tx_id, event.new_commit_oid,
                         event.old_commit_oid)
      [] event.type = "ref-move" ->
            RefUpdateEvent(event.timestamp, event_tx_id, event.ref_name,
                           event.new_ref, event.old_ref, None)

inverse_event(event, now, event_tx_id) ==
    CASE event.type \in {"commit", "unhide"} ->
            HideEvent(now, event_tx_id, event.commit_oid)
      [] event.type = "hide" ->
            UnhideEvent(now, event_tx_id, event.commit_oid)
      [] event.type = "rewrite" ->
            RewriteEvent(now, event_tx_id, event.new_commit_oid, event.old_commit_oid)
      [] event.type = "ref-move" ->
            RefUpdateEvent(now, event_tx_id, event.ref_name, event.new_ref,
                           event.old_ref, None)

\* The loop of optimize_inverse_events keeping every update of HEAD.
RECURSIVE OptimizeLoopKeepingAll(_, _, _, _)
OptimizeLoopKeepingAll(events, i, seen_checkout, optimized_events) ==
    IF i = 0 THEN optimized_events
    ELSE OptimizeLoopKeepingAll(events, i - 1, seen_checkout,
                                Append(optimized_events, events[i]))
\* The loop of optimize_inverse_events: the events are visited from the last
\* to the first; position i is the next one to visit.
RECURSIVE OptimizeLoop(_, _, _, _)
OptimizeLoop(events, i, seen_checkout, optimized_events) ==
    IF i = 0 THEN optimized_events
    ELSE IF IsHeadUpdate(events[i])
         THEN IF seen_checkout
              THEN OptimizeLoop(events, i - 1, seen_checkout, optimized_events)
              ELSE OptimizeLoop(events, i - 1, TRUE,
                                Append(optimized_events, events[i]))
         ELSE OptimizeLoop(events, i - 1, seen_checkout,
                           Append(optimized_events, events[i]))

\* optimize_inverse_events visiting the events from the first to the last.
optimize_forward(events) ==
    OptimizeLoop(Reverse(events), Len(events), FALSE, <<>>)

\* optimize_inverse_events without the reversal of what the loop collected.
optimize_without_reverse(events) ==
    OptimizeLoop(events, Len(events), FALSE, <<>>)
optimize_inverse_events(events) ==
    Reverse(OptimizeLoop(events, Len(events), FALSE, <<>>))

\* The filter of undo_events: RefUpdate(HEAD, old_ref = None, ..) is dropped.
IsCreateHead(event) == IsHeadUpdate(event) /\ event.old_ref = None

\* undo_events without its filter.
KeepEverything(event) == TRUE

KeepForInversion(event) == ~IsCreateHead(event)

\* sort_by_key of undo_events: key 0 for a HEAD update, 1 otherwise.
SortKey(event) == IF IsHeadUpdate(event) THEN 0 ELSE 1

\* undo_events without its sort.
SortByNothing(events) == events

\* A stable sort by a key of two values.
SortByKey(events) ==
    SelectSeq(events, LAMBDA e : SortKey(e) = 0)
    \o SelectSeq(events, LAMBDA e : SortKey(e) = 1)

\* The inverse events of a suffix, before optimization and reordering.
InvertSuffix(suffix, now, event_tx_id) ==
    LET kept == SelectSeq(Reverse(suffix), KeepForInversion)
    IN  [i \in 1..Len(kept) |-> inverse_event(kept[i], now, event_tx_id)]

ComputeInverseEvents(suffix, now, event_tx_id) ==
    SortByKey(optimize_inverse_events(InvertSuffix(suffix, now, event_tx_id)))

(* ------------------------------ replayer ------------------------------ *)

\* The view of a log with no events.
EmptyView ==
    [head_oid |-> None,
     branches |-> [n \in BranchNames |-> None],
     commit_history |-> [o \in Oids |->
                            [is_visible |-> FALSE, is_committed_by_user |-> FALSE]]]

\* The fold rules of the replayer.
ReplayEvent(view, event) ==
    CASE event.type = "commit" ->
            [view EXCEPT !.commit_history[event.commit_oid] =
                [is_visible |-> TRUE, is_committed_by_user |-> TRUE]]
      [] event.type = "hide" ->
            [view EXCEPT !.commit_history[event.commit_oid].is_visible = FALSE]
      [] event.type = "unhide" ->
            [view EXCEPT !.commit_history[event.commit_oid].is_visible = TRUE]
      [] event.type = "rewrite" ->
            LET hidden == [view EXCEPT
                    !.commit_history[event.old_commit_oid].is_visible = FALSE]
            IN  [hidden EXCEPT !.commit_history[event.new_commit_oid] =
                    [is_visible |-> TRUE, is_committed_by_user |-> TRUE]]
      [] event.type = "ref-move" ->
            IF event.ref_name = HEAD
            THEN [view EXCEPT !.head_oid = event.new_ref]
            ELSE [view EXCEPT !.branches[event.ref_name] = event.new_ref]

\* The view after folding events [0, c).
RECURSIVE Replay(_, _)
Replay(events, c) ==
    IF c = 0 THEN EmptyView
    ELSE ReplayEvent(Replay(events, c - 1), events[c])

\* make_cursor on a position of the log.
get_events_since_cursor(events, event_cursor) ==
    SubSeq(events, event_cursor + 1, Len(events))

(* ------------------------------- output ------------------------------- *)

\* A line (or numbered block) of the output: its text, and for the numbered
\* description of an event its number and the description.
Line(text) == [text |-> text, num |-> 0, desc |-> <<>>]
NumberedLine(i, desc) == [text |-> "numbered", num |-> i, desc |-> desc]
AppliedLine(n) == [text |-> "Applied N inverse event(s).", num |-> n, desc |-> <<>>]
WarnLine(ref_name) ==
    [text |-> "Reference did not exist, not deleting it.", num |-> 0,
     desc |-> <<ref_name>>]

\* describe_event: the words and the commits or references they name.
describe_event(event) ==
    CASE event.type = "commit" -> <<"Commit", event.commit_oid>>
      [] event.type = "hide" -> <<"Hide commit", event.commit_oid>>
      [] event.type = "unhide" -> <<"Unhide commit", event.commit_oid>>
      [] event.type = "rewrite" ->
            <<"Rewrite commit", event.old_commit_oid, "as", event.new_commit_oid>>
      [] event.type = "ref-move" ->
            IF event.ref_name = HEAD /\ event.old_ref = None /\ IsSome(event.new_ref)
            THEN <<"Check out to", Unwrap(event.new_ref)>>
            ELSE IF event.ref_name = HEAD /\ IsSome(event.old_ref)
                    /\ IsSome(event.new_ref)
            THEN <<"Check out from", Unwrap(event.old_ref), "to",
                   Unwrap(event.new_ref)>>
            ELSE IF event.old_ref = None /\ event.new_ref = None
            THEN <<"Empty event for", event.ref_name>>
            ELSE IF event.old_ref = None
            THEN <<"Create", event.ref_name, "at", Unwrap(event.new_ref)>>
            ELSE IF event.new_ref = None
            THEN <<"Delete", event.ref_name, "at", Unwrap(event.old_ref)>>
            ELSE <<"Move", event.ref_name, "from", Unwrap(event.old_ref), "to",
                   Unwrap(event.new_ref)>>

\* describe_events_numbered counting from 0.
describe_events_numbered_from_0(events) ==
    [i \in 1..Len(events) |-> NumberedLine(i - 1, describe_event(events[i]))]

describe_events_numbered(events) ==
    [i \in 1..Len(events) |-> NumberedLine(i, describe_event(events[i]))]

(* -------------------------------- input ------------------------------- *)

\* Bytes of the input; "BAD" is a byte sequence that is not valid UTF-8.
Newline == "\n"
Whitespace == {" ", Newline}

\* read_line: the bytes up to and including the first newline, or all of them.
RECURSIVE ReadLineLen(_, _)
ReadLineLen(input, i) ==
    IF i > Len(input) THEN Len(input)
    ELSE IF input[i] = Newline THEN i
    ELSE ReadLineLen(input, i + 1)

read_line(input) == SubSeq(input, 1, ReadLineLen(input, 1))

ReadFails(input) == \E i \in 1..Len(read_line(input)) : read_line(input)[i] = "BAD"

\* str::trim: leading and trailing whitespace removed.
RECURSIVE TrimStart(_)
TrimStart(s) ==
    IF s # <<>> /\ Head(s) \in Whitespace THEN TrimStart(Tail(s)) ELSE s

RECURSIVE TrimEnd(_)
TrimEnd(s) ==
    IF s # <<>> /\ s[Len(s)] \in Whitespace
    THEN TrimEnd(SubSeq(s, 1, Len(s) - 1)) ELSE s

trim(s) == TrimEnd(TrimStart(s))

\* `confirmed` when the trimmed line only starts with y or Y.
ConfirmedByPrefix(input) ==
    IF ReadFails(input) THEN FALSE
    ELSE LET user_input == trim(read_line(input))
         IN  user_input # <<>> /\ Head(user_input) \in {"y", "Y"}

\* The block computing `confirmed` in undo_events.
Confirmed(input) ==
    IF ReadFails(input) THEN FALSE
    ELSE LET user_input == trim(read_line(input))
         IN  user_input = <<"y">> \/ user_input = <<"Y">>

\* What the user may type at the prompt.
Inputs ==
    { <<>>, <<"y", Newline>>, <<" ", "Y", " ", Newline>>, <<"n", Newline>>,
      <<"y", "e", "s", Newline>>, <<Newline, "y", Newline>>,
      <<"y", "BAD", Newline>> }

(* ------------------------------- state -------------------------------- *)

VARIABLES
    log,            \* the event rows of the event store, in rowid order
    txs,            \* the event_transaction rows: the message of each id
    refs,           \* the live repository: reference name -> target
    clock,          \* SystemTime::now()
    pc,             \* undo_events: "idle", "prompt", "apply", "done", "error"
    event_cursor,   \* undo_events' argument
    now,            \* undo_events' local
    event_tx_id,    \* undo_events' local
    inverse_events, \* undo_events' local, after optimization and sorting
    idx,            \* position of the application loop in inverse_events
    out,            \* what undo_events has written
    exit_code,      \* the Ok(..) value returned, -1 while there is none
    user_input,     \* None, or Some of the input undo_events has read from
    ops,            \* what the application loop has done, in order
    pre,            \* the store and the repository when undo_events was called
    pure_in,        \* the argument of a function checked alone
    pure_out,       \* the results of its successive applications
    sel_pc,         \* select_past_event: "none", "loop", "match", "refresh",
                    \*     "returned", "error"
    main_rx,        \* the messages in the channel, oldest first
    cursor,         \* select_past_event's local
    is_running,     \* siv.is_running()
    sel_message,    \* `message`: what try_recv gave, None for Err(Empty)
    sel_result,     \* the value select_past_event returned
    sent,           \* every message sent on the channel, in order
    trace,          \* what the loop has done, in order
    keys_left,      \* how many more UI events the user produces
    sl_repo,        \* smartlog: the repository (parents, times, failures)
    sl_graph,       \* the CommitGraph given to render_graph
    sl_head_oid,    \* the HeadOid given to render_graph
    sl_root_oids,   \* what split_commit_graph_by_roots returned
    sl_lines,       \* what render_graph returned
    sl_done,        \* render_graph has returned
    hk_hook,        \* init: the Hook of determine_hook_path
    hk_file,        \* the hook file: None when absent, or Some of its text
    hk_contents,    \* the hook script given to install_hook
    hk_unreadable,  \* reading the file fails with an error other than NotFound
    hk_files,       \* the file before the first run and after each run
    hk_results,     \* "Ok" or "Err" of each run of update_hook_contents
    hk_dirs,        \* the directories that exist: before the first run and
                    \* after each run
    hk_writes,      \* every file written: the run, the path
    hk_warned       \* of each run: whether it logged a warning

vars == <<log, txs, refs, clock, pc, event_cursor, now, event_tx_id,
          inverse_events, idx, out, exit_code, user_input, ops, pre,
          pure_in, pure_out, sel_pc, main_rx, cursor, is_running,
          sel_message, sel_result, sent, trace, keys_left,
          sl_repo, sl_graph, sl_head_oid, sl_root_oids, sl_lines, sl_done,
          hk_hook, hk_file, hk_contents, hk_unreadable, hk_files, hk_results,
          hk_dirs, hk_writes, hk_warned>>

store == <<log, txs>>
locals == <<event_cursor, now, event_tx_id, inverse_events, idx, out,
            exit_code, user_input, ops, pre>>
sel == <<sel_pc, main_rx, cursor, is_running, sel_message, sel_result, sent,
         trace, keys_left>>
smart == <<sl_repo, sl_graph, sl_head_oid, sl_root_oids, sl_lines, sl_done>>
hooks == <<hk_hook, hk_file, hk_contents, hk_unreadable, hk_files, hk_results,
           hk_dirs, hk_writes, hk_warned>>
tools == <<smart, hooks>>
pure == <<pure_in, pure_out, sel, tools>>

NoRefs == [n \in RefNames |-> None]
NoPre == [log |-> <<>>, txs |-> <<>>, refs |-> NoRefs]

LocalsInit ==
    /\ pc = "idle"
    /\ event_cursor = 0
    /\ now = 0
    /\ event_tx_id = 0
    /\ inverse_events = <<>>
    /\ idx = 0
    /\ out = <<>>
    /\ exit_code = -1
    /\ user_input = None
    /\ ops = <<>>
    /\ pre = NoPre

\* select_past_event is not running.
NoSelector ==
    /\ sel_pc = "none"
    /\ main_rx = <<>>
    /\ cursor = 0
    /\ is_running = FALSE
    /\ sel_message = None
    /\ sel_result = None
    /\ sent = <<>>
    /\ trace = <<>>
    /\ keys_left = 0

\* render_graph is not running.
NoSmartlog ==
    /\ sl_repo = <<>>
    /\ sl_graph = <<>>
    /\ sl_head_oid = None
    /\ sl_root_oids = <<>>
    /\ sl_lines = <<>>
    /\ sl_done = FALSE

\* No hook is being installed.
NoHooks ==
    /\ hk_hook = "none"
    /\ hk_file = None
    /\ hk_contents = <<>>
    /\ hk_unreadable = FALSE
    /\ hk_files = <<>>
    /\ hk_results = <<>>
    /\ hk_dirs = <<>>
    /\ hk_writes = <<>>
    /\ hk_warned = <<>>

NoTools == NoSmartlog /\ NoHooks

Init ==
    /\ log = <<>>
    /\ txs = <<>>
    /\ \E head \in OptOids : refs = [NoRefs EXCEPT ![HEAD] = head]
    /\ clock = 1
    /\ LocalsInit
    /\ pure_in = <<>>
    /\ pure_out = <<>>
    /\ NoSelector
    /\ NoTools

(* ----------------------------- event store ----------------------------- *)

\* make_transaction_id handing out the next id without inserting a row.
make_transaction_id_without_row(rows, message) ==
    [rows |-> rows, id |-> Len(rows) + 1]
\* open a transaction: a row is inserted, and its id is the row's number.
make_transaction_id(rows, message) ==
    [rows |-> Append(rows, message), id |-> Len(rows) + 1]

(* ------------------------- hooks run by the VCS ------------------------ *)

\* The id of the transaction a hook opens.
HookTx(hook) == make_transaction_id(txs, hook).id

\* A hook invocation: a transaction is opened and the event appended to it.
RecordEvent(hook, event) ==
    /\ txs' = make_transaction_id(txs, hook).rows
    /\ log' = Append(log, event)
    /\ clock' = clock + 1

UserIdle == pc = "idle" /\ Len(log) < MaxLog

\* post-commit
UserCommit(oid) ==
    /\ UserIdle
    /\ RecordEvent("post-commit", CommitEvent(clock, HookTx("post-commit"), oid))
    /\ UNCHANGED <<refs, pc, locals, pure>>

\* git hide
UserHide(oid) ==
    /\ UserIdle
    /\ RecordEvent("hide", HideEvent(clock, HookTx("hide"), oid))
    /\ UNCHANGED <<refs, pc, locals, pure>>

\* git unhide
UserUnhide(oid) ==
    /\ UserIdle
    /\ RecordEvent("unhide", UnhideEvent(clock, HookTx("unhide"), oid))
    /\ UNCHANGED <<refs, pc, locals, pure>>

\* post-rewrite
UserRewrite(old_commit_oid, new_commit_oid) ==
    /\ UserIdle
    /\ old_commit_oid # new_commit_oid
    /\ RecordEvent("post-rewrite",
                   RewriteEvent(clock, HookTx("post-rewrite"), old_commit_oid,
                                new_commit_oid))
    /\ UNCHANGED <<refs, pc, locals, pure>>

\* reference-transaction on a branch: creation, move or deletion (a deletion
\* of a reference that is not there records the empty event).
UserRefUpdate(ref_name, new_ref) ==
    /\ UserIdle
    /\ ref_name # HEAD
    /\ refs[ref_name] # new_ref \/ new_ref = None
    /\ RecordEvent("reference-transaction",
                   RefUpdateEvent(clock, HookTx("reference-transaction"), ref_name,
                                  refs[ref_name], new_ref, None))
    /\ refs' = [refs EXCEPT ![ref_name] = new_ref]
    /\ UNCHANGED <<pc, locals, pure>>

\* A checkout by the user: HEAD moves, and the hook records it.
UserCheckout(oid, message) ==
    /\ UserIdle
    /\ RecordEvent("post-checkout",
                   RefUpdateEvent(clock, HookTx("post-checkout"), HEAD, refs[HEAD],
                                  Some(oid), message))
    /\ refs' = [refs EXCEPT ![HEAD] = Some(oid)]
    /\ UNCHANGED <<pc, locals, pure>>

(* ----------------------------- undo_events ----------------------------- *)

\* UndoBegin without the test for an empty inverse set.
UndoBeginAlwaysPrompts(c) ==
    /\ pc = "idle"
    /\ Len(txs) < MaxTx
    /\ LET tx_id == make_transaction_id(txs, "undo").id
           inverses == ComputeInverseEvents(get_events_since_cursor(log, c),
                                            clock, tx_id)
       IN  /\ event_cursor' = c
           /\ now' = clock
           /\ clock' = clock + 1
           /\ txs' = make_transaction_id(txs, "undo").rows
           /\ event_tx_id' = tx_id
           /\ inverse_events' = inverses
           /\ pre' = [log |-> log, txs |-> txs, refs |-> refs]
           /\ idx' = 1
           /\ out' = <<Line("Will apply these actions:")>>
                      \o describe_events_numbered(inverses)
                      \o <<Line("Confirm? [yN] ")>>
           /\ exit_code' = exit_code
           /\ pc' = "prompt"
    /\ UNCHANGED <<log, refs, user_input, ops, pure>>

\* From the call to the prompt (or to the return on an empty inverse set).
UndoBegin(c) ==
    /\ pc = "idle"
    /\ Len(txs) < MaxTx
    /\ LET tx_id == make_transaction_id(txs, "undo").id
           inverses == ComputeInverseEvents(get_events_since_cursor(log, c),
                                            clock, tx_id)
       IN  /\ event_cursor' = c
           /\ now' = clock
           /\ clock' = clock + 1
           /\ txs' = make_transaction_id(txs, "undo").rows
           /\ event_tx_id' = tx_id
           /\ inverse_events' = inverses
           /\ pre' = [log |-> log, txs |-> txs, refs |-> refs]
           /\ idx' = 1
           /\ IF inverses = <<>>
              THEN /\ out' = <<Line("No undo actions to apply, exiting.")>>
                   /\ exit_code' = 0
                   /\ pc' = "done"
              ELSE /\ out' = <<Line("Will apply these actions:")>>
                              \o describe_events_numbered(inverses)
                              \o <<Line("Confirm? [yN] ")>>
                   /\ exit_code' = exit_code
                   /\ pc' = "prompt"
    /\ UNCHANGED <<log, refs, user_input, ops, pure>>

\* UndoConfirm without the return after "Aborted.".
UndoConfirmFallsThrough(input) ==
    /\ pc = "prompt"
    /\ user_input' = Some(input)
    /\ out' = IF Confirmed(input) THEN out ELSE Append(out, Line("Aborted."))
    /\ pc' = "apply"
    /\ UNCHANGED <<store, refs, clock, event_cursor, now, event_tx_id,
                   inverse_events, idx, exit_code, ops, pre, pure>>

\* The line read at the prompt, and what follows from it.
UndoConfirm(input) ==
    /\ pc = "prompt"
    /\ user_input' = Some(input)
    /\ IF Confirmed(input)
       THEN /\ pc' = "apply"
            /\ UNCHANGED <<out, exit_code>>
       ELSE /\ out' = Append(out, Line("Aborted."))
            /\ exit_code' = 1
            /\ pc' = "done"
    /\ UNCHANGED <<store, refs, clock, event_cursor, now, event_tx_id,
                   inverse_events, idx, ops, pre, pure>>

\* The arm of the application loop's match that takes the event: the first
\* whose pattern fits.
MatchArm(event) ==
    IF IsHeadUpdate(event) /\ IsSome(event.new_ref) THEN "checkout"
    ELSE IF IsRefUpdate(event) /\ event.old_ref = None /\ event.new_ref = None
    THEN "nothing"
    ELSE IF IsRefUpdate(event) /\ event.new_ref = None THEN "delete"
    ELSE IF IsRefUpdate(event) THEN "reference"
    ELSE "add_events"

Applying(arm) ==
    /\ pc = "apply"
    /\ idx <= Len(inverse_events)
    /\ MatchArm(inverse_events[idx]) = arm

Applied(op) ==
    /\ ops' = Append(ops, [op |-> op, event |-> inverse_events[idx]])
    /\ idx' = idx + 1
    /\ UNCHANGED <<pc, event_cursor, now, event_tx_id, inverse_events,
                   exit_code, user_input, pre, pure>>

\* `git checkout --detach new_ref` run for a transaction: HEAD moves, and
\* the hooks of the VCS record the move under that transaction.
GitCheckoutDetach(new_ref, tx) ==
    /\ refs' = [refs EXCEPT ![HEAD] = new_ref]
    /\ log' = Append(log, RefUpdateEvent(clock, tx, HEAD, refs[HEAD], new_ref, None))
    /\ clock' = clock + 1

\* run_git(git_executable, Some(event_tx_id), ["checkout", "--detach", new_ref])
ApplyCheckout ==
    /\ Applying("checkout")
    /\ GitCheckoutDetach(inverse_events[idx].new_ref, event_tx_id)
    /\ Applied("checkout")
    /\ UNCHANGED <<txs, out>>

ApplyNothing ==
    /\ Applying("nothing")
    /\ Applied("nothing")
    /\ UNCHANGED <<store, refs, clock, out>>

\* ApplyDelete with the absent reference taken as an error of the operation.
ApplyDeleteFailsOnAbsent ==
    /\ Applying("delete")
    /\ LET ref_name == inverse_events[idx].ref_name
       IN  IF IsSome(refs[ref_name])
           THEN /\ refs' = [refs EXCEPT ![ref_name] = None]
                /\ out' = out
                /\ Applied("delete")
           ELSE /\ pc' = "error"
                /\ UNCHANGED <<refs, event_cursor, now, event_tx_id,
                               inverse_events, idx, out, exit_code, user_input,
                               ops, pre, pure>>
    /\ UNCHANGED <<store, clock>>

\* find_reference, then delete; a warning when the reference is not there.
ApplyDelete ==
    /\ Applying("delete")
    /\ LET ref_name == inverse_events[idx].ref_name
       IN  IF IsSome(refs[ref_name])
           THEN /\ refs' = [refs EXCEPT ![ref_name] = None]
                /\ out' = out
                /\ Applied("delete")
           ELSE /\ out' = Append(out, WarnLine(ref_name))
                /\ refs' = refs
                /\ Applied("warn")
    /\ UNCHANGED <<store, clock>>

\* ApplyReference leaving the reference where it is.
ApplyReferenceSkipped ==
    /\ Applying("reference")
    /\ refs' = refs
    /\ Applied("reference")
    /\ UNCHANGED <<store, clock, out>>
\* repo.reference(ref_name, new_ref, force = true, "branchless undo")
ApplyReference ==
    /\ Applying("reference")
    /\ refs' = [refs EXCEPT ![inverse_events[idx].ref_name] =
                                inverse_events[idx].new_ref]
    /\ Applied("reference")
    /\ UNCHANGED <<store, clock, out>>

\* event_log_db.add_events(vec![event])
ApplyAddEvents ==
    /\ Applying("add_events")
    /\ log' = Append(log, inverse_events[idx])
    /\ Applied("add_events")
    /\ UNCHANGED <<txs, refs, clock, out>>

\* An operation of the loop fails and `?` returns the error.
ApplyError ==
    /\ pc = "apply"
    /\ idx <= Len(inverse_events)
    /\ \/ MatchArm(inverse_events[idx]) \in {"checkout", "reference", "add_events"}
       \/ /\ MatchArm(inverse_events[idx]) = "delete"
          /\ IsSome(refs[inverse_events[idx].ref_name])
    /\ pc' = "error"
    /\ UNCHANGED <<store, refs, clock, event_cursor, now, event_tx_id,
                   inverse_events, idx, out, exit_code, user_input, ops, pre,
                   pure>>

UndoFinish ==
    /\ pc = "apply"
    /\ idx > Len(inverse_events)
    /\ out' = Append(out, AppliedLine(Len(inverse_events)))
    /\ exit_code' = 0
    /\ pc' = "done"
    /\ UNCHANGED <<store, refs, clock, event_cursor, now, event_tx_id,
                   inverse_events, idx, user_input, ops, pre, pure>>

\* undo_events has returned; its locals are gone.
UndoReturn ==
    /\ pc \in {"done", "error"}
    /\ pc' = "idle"
    /\ event_cursor' = 0
    /\ now' = 0
    /\ event_tx_id' = 0
    /\ inverse_events' = <<>>
    /\ idx' = 0
    /\ out' = <<>>
    /\ exit_code' = -1
    /\ user_input' = None
    /\ ops' = <<>>
    /\ pre' = NoPre
    /\ UNCHANGED <<store, refs, clock, pure>>

Next ==
    \/ \E oid \in Oids : UserCommit(oid)
    \/ \E oid \in Oids : UserHide(oid)
    \/ \E oid \in Oids : UserUnhide(oid)
    \/ \E a \in Oids, b \in Oids : UserRewrite(a, b)
    \/ \E n \in BranchNames, v \in OptOids : UserRefUpdate(n, v)
    \/ \E oid \in Oids, m \in Messages : UserCheckout(oid, m)
    \/ \E c \in 0..Len(log) : UndoBegin(c)
    \/ \E input \in Inputs : UndoConfirm(input)
    \/ ApplyCheckout
    \/ ApplyNothing
    \/ ApplyDelete
    \/ ApplyReference
    \/ ApplyAddEvents
    \/ ApplyError
    \/ UndoFinish
    \/ UndoReturn

Spec == Init /\ [][Next]_vars

(* ------------- undo_events in a repository with references ------------- *)

\* The event log is empty and the repository already has its references:
\* HEAD and the branch point anywhere, or are absent.
InitRefs ==
    /\ log = <<>>
    /\ txs = <<>>
    /\ refs \in [RefNames -> OptOids]
    /\ clock = 1
    /\ LocalsInit
    /\ pure_in = <<>>
    /\ pure_out = <<>>
    /\ NoSelector
    /\ NoTools

\* Reference updates by the user, and undo_events.
NextRefs ==
    \/ \E n \in BranchNames, v \in OptOids : UserRefUpdate(n, v)
    \/ \E oid \in Oids, m \in Messages : UserCheckout(oid, m)
    \/ \E c \in 0..Len(log) : UndoBegin(c)
    \/ \E input \in Inputs : UndoConfirm(input)
    \/ ApplyCheckout
    \/ ApplyNothing
    \/ ApplyDelete
    \/ ApplyReference
    \/ ApplyError
    \/ UndoFinish
    \/ UndoReturn

SpecRefs == InitRefs /\ [][NextRefs]_vars

(* ------------------- the functions of undo.rs alone -------------------- *)

\* The repository, undo_events and the selector, at rest.
Quiet ==
    /\ log = <<>>
    /\ txs = <<>>
    /\ refs = NoRefs
    /\ clock = 1
    /\ LocalsInit
    /\ NoSelector

\* Every subsystem at rest.
AtRest == Quiet /\ NoTools

Call(event_now, tx, result) ==
    [now |-> event_now, event_tx_id |-> tx, result |-> result]

\* The value the next application takes: the argument, or the last result.
PureArg == IF pure_out = <<>> THEN pure_in ELSE pure_out[Len(pure_out)].result

Times == {5, 6}
TxIds == {7, 8}

\* inverse_event, applied to an event and then to its own result.
InitInverse ==
    /\ AtRest
    /\ pure_in \in {<<e>> : e \in EventsWith(1, 1)}
    /\ pure_out = <<>>

CallInverse(t, tx) ==
    /\ Len(pure_out) < 2
    /\ pure_out' = Append(pure_out,
                          Call(t, tx, <<inverse_event(PureArg[1], t, tx)>>))
    /\ UNCHANGED <<log, txs, refs, clock, pc, locals, pure_in, sel, tools>>

NextInverse == \E t \in Times, tx \in TxIds : CallInverse(t, tx)

SpecInverse == InitInverse /\ [][NextInverse]_vars

\* optimize_inverse_events, applied to a sequence and then to its own result.
OptimizeEvents ==
    { RefUpdateEvent(1, 1, HEAD, Some("o1"), Some("o2"), None),
      RefUpdateEvent(2, 1, HEAD, Some("o1"), None, None),
      RefUpdateEvent(3, 1, "refs/heads/b", None, Some("o1"), None),
      CommitEvent(4, 1, "o1"),
      HideEvent(5, 1, "o2") }

SeqsUpTo(S, n) == UNION {[1..k -> S] : k \in 0..n}

InitOptimize ==
    /\ AtRest
    /\ pure_in \in SeqsUpTo(OptimizeEvents, MaxSeq)
    /\ pure_out = <<>>

CallOptimize ==
    /\ Len(pure_out) < 2
    /\ pure_out' = Append(pure_out, Call(0, 0, optimize_inverse_events(PureArg)))
    /\ UNCHANGED <<log, txs, refs, clock, pc, locals, pure_in, sel, tools>>

NextOptimize == CallOptimize

SpecOptimize == InitOptimize /\ [][NextOptimize]_vars

(* ------------------------- cursors of the replayer --------------------- *)

Min(a, b) == IF a <= b THEN a ELSE b
Max(a, b) == IF a >= b THEN a ELSE b

\* The cursor at present.
make_default_cursor(events) == Len(events)

\* Clamps to [0, N]; a negative event_id counts from the end.
make_cursor(events, event_id) ==
    IF event_id >= 0 THEN Min(event_id, Len(events))
    ELSE Max(0, Len(events) + event_id)

\* A boundary: a position right after the last event of a transaction.
IsBoundary(events, c) ==
    /\ c \in 1..Len(events)
    /\ c = Len(events) \/ events[c].event_tx_id # events[c + 1].event_tx_id

\* Moves |delta| transaction boundaries in delta's direction, within [0, N].
RECURSIVE advance_cursor_by_transaction(_, _, _)
advance_cursor_by_transaction(events, c, delta) ==
    IF delta = 0 THEN c
    ELSE IF delta > 0
    THEN LET later == {b \in (c + 1)..Len(events) : IsBoundary(events, b)}
             next == IF later = {} THEN Len(events)
                     ELSE CHOOSE b \in later : \A x \in later : b <= x
         IN  advance_cursor_by_transaction(events, next, delta - 1)
    ELSE LET earlier == {b \in 1..(c - 1) : IsBoundary(events, b)}
             previous == IF earlier = {} THEN 0
                         ELSE CHOOSE b \in earlier : \A x \in earlier : b >= x
         IN  advance_cursor_by_transaction(events, previous, delta + 1)

\* The most recent transaction that ends at or before the cursor (its last
\* event is the b-th of the log for a boundary b <= c), with its events in
\* log order; None when no transaction ends there.
get_tx_events_before_cursor(events, c) ==
    LET ends == {b \in 1..Min(c, Len(events)) : IsBoundary(events, b)}
    IN  IF ends = {} THEN None
        ELSE LET last == CHOOSE b \in ends : \A x \in ends : b >= x
                 first == advance_cursor_by_transaction(events, last, -1) + 1
             IN  Some([tx_id |-> events[last].event_tx_id,
                       events |-> SubSeq(events, first, last)])

(* ------------------------------ info panel ----------------------------- *)

\* "Repo after transaction <tx> (event <id>). Press 'h' for help, 'q' to
\* quit." (the relative time, shown when enabled, is left out).
InfoHeader(tx_id, event_id) ==
    [text |-> "Repo after transaction", num |-> tx_id, desc |-> <<event_id>>]

\* The info panel listing only the first event of the transaction.
info_view_first_event_only(events, c) ==
    LET event == get_tx_events_before_cursor(events, c)
    IN  IF event = None
        THEN <<Line("There are no previous available events.")>>
        ELSE <<InfoHeader(Unwrap(event).events[1].event_tx_id,
                          Unwrap(event).tx_id)>>
             \o describe_events_numbered(SubSeq(Unwrap(event).events, 1, 1))

\* The content redraw sets on the InfoView at cursor c.
info_view_contents(events, c) ==
    LET event == get_tx_events_before_cursor(events, c)
    IN  IF event = None
        THEN <<Line("There are no previous available events.")>>
        ELSE <<InfoHeader(Unwrap(event).events[1].event_tx_id,
                          Unwrap(event).tx_id)>>
             \o describe_events_numbered(Unwrap(event).events)
(* --------------------------- select_past_event ------------------------- *)

Msg(type, event_id) == [type |-> type, event_id |-> event_id]

MsgInit == Msg("Init", 0)
MsgNext == Msg("Next", 0)
MsgPrevious == Msg("Previous", 0)
MsgGoToEvent == Msg("GoToEvent", 0)
MsgHelp == Msg("Help", 0)
MsgQuit == Msg("Quit", 0)
MsgSelectEventIdAndQuit == Msg("SelectEventIdAndQuit", 0)
SetEventReplayerCursor(event_id) == Msg("SetEventReplayerCursor", event_id)
NoMsg == Msg("none", 0)

\* The messages the global callbacks send, one per key binding.
KeyMessages ==
    {MsgNext, MsgPrevious, MsgHelp, MsgGoToEvent, MsgQuit,
     MsgSelectEventIdAndQuit}

\* The numbers the user submits in the "Go to event" dialog.
EventIds == {-5, -1, 0, 1, 5}

DialogMessages == {SetEventReplayerCursor(event_id) : event_id \in EventIds}

\* An entry of the loop's trace; a redraw entry holds the content set on the
\* InfoView.
Did(kind, msg, c, pending) ==
    [kind |-> kind, msg |-> msg, cursor |-> c, pending |-> pending,
     info |-> IF kind = "redraw" THEN info_view_contents(log, c) ELSE <<>>]

\* The messages the loop has consumed, in order.
Consumed ==
    LET recvs == SelectSeq(trace, LAMBDA t : t.kind = "recv")
    IN  [i \in 1..Len(recvs) |-> recvs[i].msg]

\* A "Go to event" dialog has been opened.
DialogOpened == \E i \in 1..Len(Consumed) : Consumed[i] = MsgGoToEvent

\* The messages the UI can send now: those of the key bindings, and those of
\* a submission in the dialog.
UiMessages ==
    IF DialogOpened THEN KeyMessages \cup DialogMessages ELSE KeyMessages

\* try_recv taking the newest message instead of the oldest.
try_recv_newest(queue) ==
    IF queue = <<>> THEN [message |-> None, rest |-> queue]
    ELSE [message |-> Some(queue[Len(queue)]),
          rest |-> SubSeq(queue, 1, Len(queue) - 1)]

\* main_rx.try_recv(): the oldest message, or Err(Empty). The sender main_tx
\* lives as long as the loop, so Err(Disconnected) is never returned.
try_recv(queue) ==
    IF queue = <<>> THEN [message |-> None, rest |-> queue]
    ELSE [message |-> Some(Head(queue)), rest |-> Tail(queue)]

\* The event logs the selector is opened on: up to MaxLog events, in
\* transactions of consecutive events.
SelectLogs ==
    LET patterns == {p \in SeqsUpTo(1..MaxLog, MaxLog) :
                        /\ Len(p) > 0 => p[1] = 1
                        /\ \A i \in 1..(Len(p) - 1) : p[i + 1] - p[i] \in {0, 1}}
    IN  {[i \in 1..Len(p) |-> CommitEvent(p[i], p[i], "o1")] : p \in patterns}

\* `undo` has built the replayer and select_past_event has run up to its
\* loop: the callbacks are bound, the cursor is at present, Init is sent.
InitSelect ==
    /\ log \in SelectLogs
    /\ txs = [i \in 1..(IF log = <<>> THEN 0 ELSE log[Len(log)].event_tx_id)
                |-> "post-commit"]
    /\ refs = NoRefs
    /\ clock = MaxLog + 1
    /\ pc = "idle"
    /\ event_cursor = 0
    /\ now = 0
    /\ event_tx_id = 0
    /\ inverse_events = <<>>
    /\ idx = 0
    /\ out = <<>>
    /\ exit_code = -1
    /\ user_input = None
    /\ ops = <<>>
    /\ pre = [log |-> log, txs |-> txs, refs |-> refs]
    /\ pure_in = <<>>
    /\ pure_out = <<>>
    /\ sel_pc = "loop"
    /\ main_rx = <<MsgInit>>
    /\ cursor = make_default_cursor(log)
    /\ is_running = TRUE
    /\ sel_message = None
    /\ sel_result = None
    /\ sent = <<MsgInit>>
    /\ trace = <<>>
    /\ keys_left = MaxKeys
    /\ NoTools

undo_state == <<log, txs, refs, clock, pc, locals, pure_in, pure_out, tools>>

\* The top of an iteration when the channel is empty: siv.step() runs, the
\* callbacks of the UI events it handles send their messages, the UI may
\* stop running, and `continue` goes back to the test of the loop.
SelStep(events, stops) ==
    /\ sel_pc = "loop"
    /\ is_running
    /\ try_recv(main_rx).message = None
    /\ Len(events) <= keys_left
    /\ events # <<>> \/ stops
    /\ \A i \in 1..Len(events) : events[i] \in UiMessages
    /\ sel_message' = None
    /\ main_rx' = main_rx \o events
    /\ sent' = sent \o events
    /\ keys_left' = keys_left - Len(events)
    /\ is_running' = ~stops
    /\ trace' = Append(trace, Did("step", NoMsg, cursor, Len(main_rx)))
    /\ UNCHANGED <<undo_state, sel_pc, cursor, sel_result>>

\* The top of an iteration when try_recv gives a message.
SelRecv ==
    /\ sel_pc = "loop"
    /\ is_running
    /\ try_recv(main_rx).message # None
    /\ sel_message' = try_recv(main_rx).message
    /\ main_rx' = try_recv(main_rx).rest
    /\ trace' = Append(trace, Did("recv", Unwrap(try_recv(main_rx).message),
                                  cursor, Len(main_rx)))
    /\ sel_pc' = "match"
    /\ UNCHANGED <<undo_state, cursor, is_running, sel_result, sent, keys_left>>

Matching(type) ==
    /\ sel_pc = "match"
    /\ Unwrap(sel_message).type = type

\* redraw(siv, event_replayer, c), then the end of the match.
Redraw(c) ==
    /\ cursor' = c
    /\ trace' = Append(trace, Did("redraw", Unwrap(sel_message), c, Len(main_rx)))
    /\ sel_pc' = "refresh"
    /\ UNCHANGED <<undo_state, main_rx, is_running, sel_message, sel_result,
                   sent, keys_left>>

\* An arm that only adds a layer, or quits.
NoRedraw(running) ==
    /\ is_running' = running
    /\ sel_pc' = "refresh"
    /\ UNCHANGED <<undo_state, main_rx, cursor, sel_message, sel_result, sent,
                   trace, keys_left>>

OnInit == Matching("Init") /\ Redraw(cursor)

OnNext ==
    Matching("Next") /\ Redraw(advance_cursor_by_transaction(log, cursor, 1))

\* OnPrevious moving forward, as OnNext does.
OnPreviousForward ==
    Matching("Previous") /\ Redraw(advance_cursor_by_transaction(log, cursor, 1))

OnPrevious ==
    Matching("Previous") /\ Redraw(advance_cursor_by_transaction(log, cursor, -1))

\* OnSetEventReplayerCursor taking event_id as the cursor.
OnSetEventReplayerCursorRaw ==
    Matching("SetEventReplayerCursor") /\ Redraw(Unwrap(sel_message).event_id)

OnSetEventReplayerCursor ==
    /\ Matching("SetEventReplayerCursor")
    /\ Redraw(make_cursor(log, Unwrap(sel_message).event_id))

OnGoToEvent == Matching("GoToEvent") /\ NoRedraw(is_running)

OnHelp == Matching("Help") /\ NoRedraw(is_running)

\* OnQuit without siv.quit().
OnQuitIgnored == Matching("Quit") /\ NoRedraw(is_running)

\* siv.quit()
OnQuit == Matching("Quit") /\ NoRedraw(FALSE)

\* OnSelectEventIdAndQuit returning the cursor at present.
OnSelectEventIdAndQuitDefault ==
    /\ Matching("SelectEventIdAndQuit")
    /\ is_running' = FALSE
    /\ sel_result' = Some(make_default_cursor(log))
    /\ sel_pc' = "returned"
    /\ UNCHANGED <<undo_state, main_rx, cursor, sel_message, sent, trace,
                   keys_left>>

\* siv.quit(); return Ok(Some(cursor))
OnSelectEventIdAndQuit ==
    /\ Matching("SelectEventIdAndQuit")
    /\ is_running' = FALSE
    /\ sel_result' = Some(cursor)
    /\ sel_pc' = "returned"
    /\ UNCHANGED <<undo_state, main_rx, cursor, sel_message, sent, trace,
                   keys_left>>

\* redraw fails and `?` returns the error.
RedrawError ==
    /\ sel_pc = "match"
    /\ Unwrap(sel_message).type
          \in {"Init", "Next", "Previous", "SetEventReplayerCursor"}
    /\ sel_pc' = "error"
    /\ UNCHANGED <<undo_state, main_rx, cursor, is_running, sel_message,
                   sel_result, sent, trace, keys_left>>

\* SelRefresh without the repaint.
SelRefreshSkipped ==
    /\ sel_pc = "refresh"
    /\ sel_pc' = "loop"
    /\ UNCHANGED <<undo_state, main_rx, cursor, is_running, sel_message,
                   sel_result, sent, trace, keys_left>>

\* if message.is_ok() { siv.refresh() }
SelRefresh ==
    /\ sel_pc = "refresh"
    /\ trace' = Append(trace, Did("refresh", NoMsg, cursor, Len(main_rx)))
    /\ sel_pc' = "loop"
    /\ UNCHANGED <<undo_state, main_rx, cursor, is_running, sel_message,
                   sel_result, sent, keys_left>>

\* The test of the loop fails: Ok(None).
SelExit ==
    /\ sel_pc = "loop"
    /\ ~is_running
    /\ sel_result' = None
    /\ sel_pc' = "returned"
    /\ UNCHANGED <<undo_state, main_rx, cursor, is_running, sel_message, sent,
                   trace, keys_left>>

\* UndoCancelled going on to undo_events with the selector's last cursor.
UndoCancelledCallsUndoEvents ==
    /\ sel_pc = "returned"
    /\ sel_result = None
    /\ UndoBegin(cursor)

\* undo: the selector gave None, return Ok(0).
UndoCancelled ==
    /\ sel_pc = "returned"
    /\ sel_result = None
    /\ exit_code = -1
    /\ exit_code' = 0
    /\ UNCHANGED <<store, refs, clock, pc, event_cursor, now, event_tx_id,
                   inverse_events, idx, out, user_input, ops, pre, pure>>

\* undo calling undo_events with the cursor at present instead of the
\* selected one.
UndoSelectedAtPresent ==
    /\ sel_pc = "returned"
    /\ IsSome(sel_result)
    /\ UndoBegin(make_default_cursor(log))
\* undo: the selector gave a cursor, undo_events is called with it (from its
\* prompt on, undo_events is the subject of Spec).
UndoSelected ==
    /\ sel_pc = "returned"
    /\ IsSome(sel_result)
    /\ UndoBegin(Unwrap(sel_result))

NextSelect ==
    \/ /\ sel_pc = "loop"
       /\ \E events \in SeqsUpTo(UiMessages, keys_left), stops \in BOOLEAN :
             SelStep(events, stops)
    \/ SelRecv
    \/ OnInit
    \/ OnNext
    \/ OnPrevious
    \/ OnSetEventReplayerCursor
    \/ OnGoToEvent
    \/ OnHelp
    \/ OnQuit
    \/ OnSelectEventIdAndQuit
    \/ RedrawError
    \/ SelRefresh
    \/ SelExit
    \/ UndoCancelled
    \/ UndoSelected

SpecSelect == InitSelect /\ [][NextSelect]_vars

(* ------------------------------- smartlog ------------------------------ *)

MaxCommits == 3
MaxTime == 2

\* The commits that can be in the graph. Ord on git2::Oid, and on its hex
\* string, is the order of the numbers.
GraphOids == 1..MaxCommits

\* The parent of a commit without parents, and a commit without parents
\* that is never in the graph.
NoParent == 0
Elsewhere == MaxCommits + 1

Less == "Less"
Equal == "Equal"
Greater == "Greater"

\* Ord::cmp.
cmp(a, b) == IF a < b THEN Less ELSE IF a > b THEN Greater ELSE Equal

\* The commit reached from oid after n steps to the parent.
RECURSIVE Up(_, _, _)
Up(parent, oid, n) ==
    IF n = 0 \/ oid \notin GraphOids THEN oid ELSE Up(parent, parent[oid], n - 1)

\* A repository: every commit has at most one parent, no commit is its own
\* ancestor, no commit is older than its parent; find_commit fails on the
\* commits of `missing`, the merge-base lookup on the pairs of `mb_errors`.
Repos ==
    {r \in [parent : [GraphOids -> GraphOids \cup {NoParent, Elsewhere}],
            time : [GraphOids -> 1..MaxTime],
            missing : {{}} \cup {{o} : o \in GraphOids},
            mb_errors : {{}} \cup {{{a, b}} : a, b \in GraphOids}] :
        /\ \A o \in GraphOids : Up(r.parent, o, MaxCommits) \notin GraphOids
        /\ \A o \in GraphOids :
              r.parent[o] \in GraphOids => r.time[r.parent[o]] <= r.time[o]
        /\ \A e \in r.mb_errors : Cardinality(e) = 2}

\* The commit and its ancestors.
RECURSIVE ancestors(_, _)
ancestors(repo, oid) ==
    IF oid = NoParent THEN {}
    ELSE IF oid = Elsewhere THEN {Elsewhere}
    ELSE {oid} \cup ancestors(repo, repo.parent[oid])

\* The VCS's merge base: the nearest common ancestor, None without one.
merge_base(repo, a, b) ==
    LET common == ancestors(repo, a) \cap ancestors(repo, b)
    IN  IF common = {} THEN None
        ELSE Some(CHOOSE m \in common : common \subseteq ancestors(repo, m))

\* MergeBaseDb::get_merge_base_oid: Ok of the merge base, or the VCS's error.
get_merge_base_oid(repo, lhs_oid, rhs_oid) ==
    IF {lhs_oid, rhs_oid} \in repo.mb_errors
    THEN [ok |-> FALSE, value |-> None]
    ELSE [ok |-> TRUE, value |-> merge_base(repo, lhs_oid, rhs_oid)]

\* repo.find_commit(oid) is Ok.
find_commit(repo, oid) == oid \notin repo.missing

\* The closure `compare` of split_commit_graph_by_roots.
compare(repo, lhs_oid, rhs_oid) ==
    IF ~find_commit(repo, lhs_oid) \/ ~find_commit(repo, rhs_oid)
    THEN cmp(lhs_oid, rhs_oid)
    ELSE LET merge_base_oid == get_merge_base_oid(repo, lhs_oid, rhs_oid)
         IN  IF ~merge_base_oid.ok THEN cmp(lhs_oid, rhs_oid)
             ELSE IF merge_base_oid.value = Some(lhs_oid) THEN Less
             ELSE IF merge_base_oid.value = Some(rhs_oid) THEN Greater
             ELSE IF cmp(repo.time[lhs_oid], repo.time[rhs_oid]) # Equal
             THEN cmp(repo.time[lhs_oid], repo.time[rhs_oid])
             ELSE cmp(lhs_oid, rhs_oid)

\* The orders in which the elements of S can be listed.
Perms(S) ==
    {p \in [1..Cardinality(S) -> S] :
        \A i, j \in 1..Cardinality(S) : i # j => p[i] # p[j]}

Range(s) == {s[i] : i \in 1..Len(s)}

\* `compare` orders the elements of S consistently: the reverse for the
\* reversed pair, and Less is transitive.
ConsistentOn(repo, S) ==
    /\ \A a, b \in S :
          a # b => /\ compare(repo, a, b) # Equal
                   /\ (compare(repo, a, b) = Less)
                          <=> (compare(repo, b, a) = Greater)
    /\ \A a, b, c \in S :
          (compare(repo, a, b) = Less /\ compare(repo, b, c) = Less /\ a # c)
              => compare(repo, a, c) = Less

\* What slice::sort_by(compare) can leave: the sorted order when `compare`
\* is a total order on the elements, and otherwise an unspecified order.
\* No two roots compare Equal, so the order of the graph's iteration does
\* not show in the result.
sort_by(repo, S) ==
    IF ConsistentOn(repo, S)
    THEN {p \in Perms(S) :
            \A i, j \in 1..Len(p) : i < j => compare(repo, p[i], p[j]) = Less}
    ELSE Perms(S)

\* The values split_commit_graph_by_roots can return.
split_commit_graph_by_roots(repo, graph) ==
    sort_by(repo, {oid \in DOMAIN graph : graph[oid].parent = None})

\* A node of the CommitGraph (its commit is named by the commit's id).
Node(commit, parent, children, is_main, is_visible) ==
    [commit |-> commit, parent |-> parent, children |-> children,
     is_main |-> is_main, is_visible |-> is_visible]

\* The nearest ancestor of oid that is a node.
RECURSIVE FirstNodeAbove(_, _, _)
FirstNodeAbove(repo, nodes, oid) ==
    IF repo.parent[oid] \notin GraphOids THEN None
    ELSE IF repo.parent[oid] \in nodes THEN Some(repo.parent[oid])
    ELSE FirstNodeAbove(repo, nodes, repo.parent[oid])

\* A graph over `nodes`: a node's parent is its nearest ancestor in the
\* graph, except for the nodes of `unlinked`, whose link is absent; its
\* children are the commits below it, in the graph or not.
MakeGraph(repo, nodes, mains, visibles, unlinked) ==
    [oid \in nodes |->
        Node(oid,
             IF oid \in unlinked THEN None ELSE FirstNodeAbove(repo, nodes, oid),
             {c \in GraphOids :
                 \/ repo.parent[c] = oid
                 \/ c \in nodes /\ FirstNodeAbove(repo, nodes, c) = Some(oid)},
             oid \in mains, oid \in visibles)]

\* A line of the smartlog: the connector glyphs put before it by the
\* enclosing calls (each followed by a space), then either a commit's line
\* (cursor glyph, a space, the metadata text of the commit) or plain text.
SmartLine(prefix, glyph, oid, bold, plain) ==
    [prefix |-> prefix, cursor |-> glyph, oid |-> oid, bold |-> bold,
     plain |-> plain]

PlainLine(plain) == SmartLine(<<>>, "", 0, FALSE, plain)

\* Each line with "<glyph> " put before it.
Prefixed(glyph, lines) ==
    [i \in 1..Len(lines) |-> [lines[i] EXCEPT !.prefix = <<glyph>> \o @]]

\* The cursor glyph with is_head left out of the choice.
cursor_glyph_ignoring_head(is_main, is_visible, is_head) ==
    CASE ~is_main /\ ~is_visible -> "commit_hidden"
      [] ~is_main /\ is_visible -> "commit_visible"
      [] is_main /\ ~is_visible -> "commit_main_hidden"
      [] is_main /\ is_visible -> "commit_main"

\* The match on (is_main, is_visible, is_head): the field of Glyphs.
cursor_glyph(is_main, is_visible, is_head) ==
    CASE ~is_main /\ ~is_visible /\ ~is_head -> "commit_hidden"
      [] ~is_main /\ ~is_visible /\ is_head -> "commit_hidden_head"
      [] ~is_main /\ is_visible /\ ~is_head -> "commit_visible"
      [] ~is_main /\ is_visible /\ is_head -> "commit_visible_head"
      [] is_main /\ ~is_visible /\ ~is_head -> "commit_main_hidden"
      [] is_main /\ ~is_visible /\ is_head -> "commit_main_hidden_head"
      [] is_main /\ is_visible /\ ~is_head -> "commit_main"
      [] is_main /\ is_visible /\ is_head -> "commit_main_head"

\* sort_by_key on the oid string alone.
SortedChildrenByOid(repo, S) ==
    CHOOSE p \in Perms(S) : \A i, j \in 1..Len(p) : i < j => p[i] < p[j]
\* sort_by_key on (commit time, oid string).
SortedChildren(repo, S) ==
    CHOOSE p \in Perms(S) :
        \A i, j \in 1..Len(p) :
            i < j => \/ repo.time[p[i]] < repo.time[p[j]]
                     \/ repo.time[p[i]] = repo.time[p[j]] /\ p[i] < p[j]

RECURSIVE get_child_output(_, _, _, _, _, _)
RECURSIVE ChildrenOutput(_, _, _, _, _, _, _)

\* The loop of get_child_output over the children, from child_idx on.
ChildrenOutput(repo, graph, root_oids, head_oid, children, child_idx, last_child_line_char) ==
    IF child_idx > Len(children) THEN <<>>
    ELSE LET child_oid == children[child_idx]
             is_last == child_idx = Len(children)
             rest == ChildrenOutput(repo, graph, root_oids, head_oid, children,
                                    child_idx + 1, last_child_line_char)
             connector == IF is_last /\ last_child_line_char = None
                          THEN PlainLine("line")
                          ELSE PlainLine("line_with_offshoot slash")
             child_output == get_child_output(repo, graph, root_oids, head_oid,
                                              child_oid, None)
             shown == IF ~is_last THEN Prefixed("line", child_output)
                      ELSE IF last_child_line_char = None THEN child_output
                      ELSE Prefixed(Unwrap(last_child_line_char), child_output)
         IN  IF child_oid \in Range(root_oids) THEN rest
             ELSE <<connector>> \o shown \o rest

get_child_output(repo, graph, root_oids, head_oid, current_oid, last_child_line_char) ==
    LET current_node == graph[current_oid]
        is_head == Some(current_node.commit) = head_oid
        cursor_ == cursor_glyph(current_node.is_main, current_node.is_visible,
                                is_head)
        first_line == SmartLine(<<>>, cursor_, current_node.commit, is_head, "")
        children == SortedChildren(repo, current_node.children \cap DOMAIN graph)
    IN  <<first_line>>
        \o ChildrenOutput(repo, graph, root_oids, head_oid, children, 1,
                          last_child_line_char)

\* The closure has_real_parent of get_output.
has_real_parent(repo, oid, parent_oid) == repo.parent[oid] = parent_oid

\* commit.parent_count().
parent_count(repo, oid) == IF repo.parent[oid] = NoParent THEN 0 ELSE 1

\* The line get_output puts before the subtree of the root at root_idx, with
\* an empty line before every root after the first.
RootSeparatorAlwaysEmpty(repo, root_oids, root_idx) ==
    IF root_idx > 1 THEN <<PlainLine("")>> ELSE <<>>

\* The line get_output puts before the subtree of the root at root_idx.
RootSeparator(repo, root_oids, root_idx) ==
    IF parent_count(repo, root_oids[root_idx]) > 0
    THEN IF root_idx > 1 /\ has_real_parent(repo, root_oids[root_idx],
                                            root_oids[root_idx - 1])
         THEN <<PlainLine("line")>>
         ELSE <<PlainLine("vertical_ellipsis")>>
    ELSE IF root_idx > 1 THEN <<PlainLine("")>>
    ELSE <<>>

\* The loop of get_output over the roots, from root_idx on.
RECURSIVE RootsOutput(_, _, _, _, _)
RootsOutput(repo, graph, head_oid, root_oids, root_idx) ==
    IF root_idx > Len(root_oids) THEN <<>>
    ELSE LET root_oid == root_oids[root_idx]
             last_child_line_char ==
                 IF root_idx = Len(root_oids) THEN None
                 ELSE IF has_real_parent(repo, root_oids[root_idx + 1], root_oid)
                 THEN Some("line")
                 ELSE Some("vertical_ellipsis")
         IN  RootSeparator(repo, root_oids, root_idx)
             \o get_child_output(repo, graph, root_oids, head_oid, root_oid,
                                 last_child_line_char)
             \o RootsOutput(repo, graph, head_oid, root_oids, root_idx + 1)

get_output(repo, graph, head_oid, root_oids) ==
    RootsOutput(repo, graph, head_oid, root_oids, 1)

\* render_graph: the roots in order, then the lines.
render_graph ==
    /\ ~sl_done
    /\ \E root_oids \in split_commit_graph_by_roots(sl_repo, sl_graph) :
          /\ sl_root_oids' = root_oids
          /\ sl_lines' = get_output(sl_repo, sl_graph, sl_head_oid, root_oids)
    /\ sl_done' = TRUE
    /\ UNCHANGED <<log, txs, refs, clock, pc, locals, pure_in, pure_out, sel,
                   sl_repo, sl_graph, sl_head_oid, hooks>>

\* split_commit_graph_by_roots on graphs of every shape, in repositories
\* where lookups can fail.
InitRoots ==
    /\ Quiet
    /\ pure_in = <<>>
    /\ pure_out = <<>>
    /\ sl_repo \in Repos
    /\ \E nodes \in SUBSET GraphOids \ {{}} :
          \E unlinked \in SUBSET nodes :
              sl_graph = MakeGraph(sl_repo, nodes, {}, nodes, unlinked)
    /\ sl_head_oid = None
    /\ sl_root_oids = <<>>
    /\ sl_lines = <<>>
    /\ sl_done = FALSE
    /\ NoHooks

NextRoots == render_graph

SpecRoots == InitRoots /\ [][NextRoots]_vars

\* render_graph on graphs with main, hidden and checked-out commits, in
\* repositories where every lookup succeeds.
InitSmartlog ==
    /\ Quiet
    /\ pure_in = <<>>
    /\ pure_out = <<>>
    /\ sl_repo \in {r \in Repos : r.missing = {} /\ r.mb_errors = {}}
    /\ \E nodes \in SUBSET GraphOids \ {{}} :
          \E mains \in SUBSET nodes, visibles \in SUBSET nodes :
              sl_graph = MakeGraph(sl_repo, nodes, mains, visibles, mains)
    /\ sl_head_oid \in {None} \cup {Some(oid) : oid \in GraphOids}
    /\ sl_root_oids = <<>>
    /\ sl_lines = <<>>
    /\ sl_done = FALSE
    /\ NoHooks

NextSmartlog == render_graph

SpecSmartlog == InitSmartlog /\ [][NextSmartlog]_vars
(* --------------------------------- init -------------------------------- *)

MaxFileLines == 4
MaxScript == 3
MaxInstalls == 2

\* A text is a sequence of pieces: a newline, or a piece without newline (a
\* marker's text, the shebang's, any other).
NL == "\n"
SHEBANG == "#!/bin/sh"
UPDATE_MARKER_START == "## START BRANCHLESS CONFIG"
UPDATE_MARKER_END == "## END BRANCHLESS CONFIG"

\* The texts the hook file can hold before the first installation: up to
\* MaxFileLines lines, the last one with or without its newline.
FileLines ==
    {<<>>, <<"old">>, <<SHEBANG>>, <<UPDATE_MARKER_START>>, <<UPDATE_MARKER_END>>}

RECURSIVE Flatten(_)
Flatten(ss) == IF ss = <<>> THEN <<>> ELSE Head(ss) \o Flatten(Tail(ss))

FileTexts ==
    LET terminated == {Flatten([i \in 1..Len(ls) |-> ls[i] \o <<NL>>]) :
                          ls \in SeqsUpTo(FileLines, MaxFileLines)}
    IN  terminated
        \cup {SubSeq(t, 1, Len(t) - 1) : t \in terminated \ {<<>>}}

\* The hook scripts given to install_hook.
HookScripts == SeqsUpTo({NL, "new"}, MaxScript)

\* str::lines(): the pieces between newlines; a last line needs no newline,
\* and nothing follows a final newline.
RECURSIVE str_lines(_)
str_lines(text) ==
    IF text = <<>> THEN <<>>
    ELSE LET ends == {k \in 1..Len(text) : text[k] = NL}
             k == IF ends = {} THEN Len(text) + 1
                  ELSE CHOOSE e \in ends : \A x \in ends : e <= x
         IN  <<SubSeq(text, 1, k - 1)>>
             \o str_lines(SubSeq(text, k + 1, Len(text)))

\* The directories under the repository path that the hook path depends on.
HOOKS_MULTI == "hooks_multi"
HOOK_TYPE_D == "hooks_multi/<type>.d"
HookDirs == {{}, {HOOKS_MULTI}, {HOOKS_MULTI, HOOK_TYPE_D}}

\* The two paths a hook can be written to.
HOOK_TYPE_D_FILE == "hooks_multi/<type>.d/00_local_branchless"
HOOKS_DIR_FILE == "<hooks dir>/<type>"

\* determine_hook_path choosing by the directory of the hook type.
determine_hook_path_by_type_dir(dirs) ==
    IF HOOK_TYPE_D \in dirs THEN "MultiHook" ELSE "RegularHook"

\* determine_hook_path: the multi-hook layout when hooks_multi exists.
determine_hook_path(dirs) ==
    IF HOOKS_MULTI \in dirs THEN "MultiHook" ELSE "RegularHook"

\* The path held by the Hook that determine_hook_path returns.
HookPath(hook) ==
    IF hook = "MultiHook" THEN HOOK_TYPE_D_FILE
    ELSE HOOKS_DIR_FILE

\* create_dir_all on the parent of the hook path.
create_dir_all(hook, dirs) ==
    IF hook = "MultiHook" THEN dirs \cup {HOOKS_MULTI, HOOK_TYPE_D} ELSE dirs

\* is_ignoring_lines when the loop of update_between_lines ends.
RECURSIVE IsIgnoringAtEnd(_, _, _)
IsIgnoringAtEnd(ls, i, is_ignoring_lines) ==
    IF i > Len(ls) THEN is_ignoring_lines
    ELSE IF ls[i] = <<UPDATE_MARKER_START>> THEN IsIgnoringAtEnd(ls, i + 1, TRUE)
    ELSE IF ls[i] = <<UPDATE_MARKER_END>> THEN IsIgnoringAtEnd(ls, i + 1, FALSE)
    ELSE IsIgnoringAtEnd(ls, i + 1, is_ignoring_lines)

\* Whether update_hook_contents logs "Unterminated branchless config
\* comment in hook": only update_between_lines does, on an existing file of
\* a regular hook.
WarnsUnterminated(hook, file) ==
    /\ hook = "RegularHook"
    /\ file # None
    /\ IsIgnoringAtEnd(str_lines(Unwrap(file)), 1, FALSE)

\* The loop of update_between_lines keeping the lines it should ignore.
RECURSIVE UpdateLoopKeepingOld(_, _, _, _)
UpdateLoopKeepingOld(ls, i, updated_lines, is_ignoring_lines) ==
    IF i > Len(ls) THEN <<>>
    ELSE IF ls[i] = <<UPDATE_MARKER_START>>
    THEN <<UPDATE_MARKER_START, NL>> \o updated_lines
         \o <<UPDATE_MARKER_END, NL>>
         \o UpdateLoopKeepingOld(ls, i + 1, updated_lines, TRUE)
    ELSE IF ls[i] = <<UPDATE_MARKER_END>>
    THEN UpdateLoopKeepingOld(ls, i + 1, updated_lines, FALSE)
    ELSE ls[i] \o <<NL>>
         \o UpdateLoopKeepingOld(ls, i + 1, updated_lines, is_ignoring_lines)

\* The loop of update_between_lines from the i-th line on: what it pushes.
RECURSIVE UpdateLoop(_, _, _, _)
UpdateLoop(ls, i, updated_lines, is_ignoring_lines) ==
    IF i > Len(ls) THEN <<>>
    ELSE IF ls[i] = <<UPDATE_MARKER_START>>
    THEN <<UPDATE_MARKER_START, NL>> \o updated_lines
         \o <<UPDATE_MARKER_END, NL>>
         \o UpdateLoop(ls, i + 1, updated_lines, TRUE)
    ELSE IF ls[i] = <<UPDATE_MARKER_END>>
    THEN UpdateLoop(ls, i + 1, updated_lines, FALSE)
    ELSE IF ~is_ignoring_lines
    THEN ls[i] \o <<NL>> \o UpdateLoop(ls, i + 1, updated_lines, FALSE)
    ELSE UpdateLoop(ls, i + 1, updated_lines, TRUE)

update_between_lines(text, updated_lines) ==
    UpdateLoop(str_lines(text), 1, updated_lines, FALSE)

\* The text update_hook_contents writes on a file that was not found.
NewHookFile(hook_contents) ==
    <<SHEBANG, NL, UPDATE_MARKER_START, NL>> \o hook_contents
    \o <<NL, UPDATE_MARKER_END, NL>>

\* The text update_hook_contents writes for a hook and the file it finds.
HookFileContents(hook, file, hook_contents) ==
    IF hook = "MultiHook" THEN <<SHEBANG, NL>> \o hook_contents
    ELSE IF file = None THEN NewHookFile(hook_contents)
    ELSE update_between_lines(Unwrap(file), hook_contents)

\* update_hook_contents returning Ok: the file is read (for a regular
\* hook), the new text is written, the file is made executable.
update_hook_contents ==
    /\ Len(hk_results) < MaxInstalls
    /\ ~(hk_hook = "RegularHook" /\ hk_unreadable)
    /\ hk_file' = Some(HookFileContents(hk_hook, hk_file, hk_contents))
    /\ hk_files' = Append(hk_files, hk_file')
    /\ hk_results' = Append(hk_results, "Ok")
    /\ hk_dirs' = Append(hk_dirs, create_dir_all(hk_hook, hk_dirs[Len(hk_dirs)]))
    /\ hk_writes' = Append(hk_writes, [run |-> Len(hk_results) + 1,
                                        path |-> HookPath(hk_hook)])
    /\ hk_warned' = Append(hk_warned, WarnsUnterminated(hk_hook, hk_file))
    /\ UNCHANGED <<log, txs, refs, clock, pc, locals, pure_in, pure_out, sel,
                   smart, hk_hook, hk_contents, hk_unreadable>>

\* update_hook_contents returning Err: reading the file of a regular hook
\* fails with an error other than NotFound, and nothing is written.
UpdateHookContentsErr ==
    /\ Len(hk_results) < MaxInstalls
    /\ hk_hook = "RegularHook"
    /\ hk_unreadable
    /\ hk_files' = Append(hk_files, hk_file)
    /\ hk_results' = Append(hk_results, "Err")
    /\ hk_warned' = Append(hk_warned, FALSE)
    /\ hk_dirs' = Append(hk_dirs, hk_dirs[Len(hk_dirs)])
    /\ UNCHANGED <<log, txs, refs, clock, pc, locals, pure_in, pure_out, sel,
                   smart, hk_hook, hk_file, hk_contents, hk_unreadable,
                   hk_writes>>

\* install_hook is about to run: determine_hook_path has looked at the
\* directories, the file is absent or holds a text.
InitHook ==
    /\ Quiet
    /\ pure_in = <<>>
    /\ pure_out = <<>>
    /\ NoSmartlog
    /\ hk_dirs \in {<<dirs>> : dirs \in HookDirs}
    /\ hk_hook = determine_hook_path(hk_dirs[1])
    /\ hk_file \in {None} \cup {Some(t) : t \in FileTexts}
    /\ hk_hook = "MultiHook" => hk_file = None
    /\ hk_contents \in HookScripts
    /\ hk_unreadable \in BOOLEAN
    /\ hk_unreadable => hk_hook = "RegularHook" /\ hk_file # None
    /\ hk_files = <<hk_file>>
    /\ hk_results = <<>>
    /\ hk_writes = <<>>
    /\ hk_warned = <<>>

NextHook ==
    \/ update_hook_contents
    \/ UpdateHookContentsErr

SpecHook == InitHook /\ [][NextHook]_vars

(* ------------------- the two undo engines side by side ------------------ *)

\* An event of src/undo.rs, whose Event has no transaction id: the field is
\* kept, at the id that no transaction has.
WithoutTxId(event) == [event EXCEPT !.event_tx_id = 0]

WithoutTxIds(events) == [i \in 1..Len(events) |-> WithoutTxId(events[i])]

\* inverse_event of src/undo.rs.
legacy_inverse_event(event_now, event) ==
    WithoutTxId(inverse_event(event, event_now, 0))

\* The inverse events of src/undo.rs' undo_events with no event filtered out.
legacy_inverse_events_unfiltered(suffix, event_now) ==
    LET reversed == Reverse(WithoutTxIds(suffix))
    IN  optimize_inverse_events(
            [i \in 1..Len(reversed) |->
                legacy_inverse_event(event_now, reversed[i])])

\* The inverse events of src/undo.rs' undo_events: the suffix reversed,
\* filtered, inverted and optimized; they are applied in this order.
legacy_inverse_events(suffix, event_now) ==
    LET kept == SelectSeq(Reverse(WithoutTxIds(suffix)), KeepForInversion)
    IN  optimize_inverse_events(
            [i \in 1..Len(kept) |-> legacy_inverse_event(event_now, kept[i])])

\* The inverse events of src/commands/undo.rs' undo_events after the filter
\* and the optimization, before the sort.
canonical_optimized_events(suffix, event_now, tx) ==
    optimize_inverse_events(InvertSuffix(suffix, event_now, tx))

\* What an arm of the application loop (the same arms in both files) does to
\* the references when it succeeds.
ApplyEvent(rs, event) ==
    CASE MatchArm(event) = "checkout" -> [rs EXCEPT ![HEAD] = event.new_ref]
      [] MatchArm(event) = "nothing" -> rs
      [] MatchArm(event) = "delete" -> [rs EXCEPT ![event.ref_name] = None]
      [] MatchArm(event) = "reference" ->
            [rs EXCEPT ![event.ref_name] = event.new_ref]
      [] MatchArm(event) = "add_events" -> rs

\* The application loop confirmed and without error: the references after
\* the first n events.
RECURSIVE ApplyEvents(_, _, _)
ApplyEvents(rs, events, n) ==
    IF n = 0 THEN rs ELSE ApplyEvent(ApplyEvents(rs, events, n - 1), events[n])

\* EventReplayer::get_event_before_cursor of src/undo.rs' replayer: the id
\* of the event before the cursor, or None with no event before it.
get_event_before_cursor(events, c) ==
    IF c = 0 THEN None ELSE Some(<<c, WithoutTxId(events[c])>>)

\* Message::SelectEventIdAndQuit in src/undo.rs' select_past_event.
legacy_select_event_id(events, c) ==
    IF IsSome(get_event_before_cursor(events, c))
    THEN Some(Unwrap(get_event_before_cursor(events, c))[1])
    ELSE None

\* Message::SelectEventIdAndQuit in src/commands/undo.rs' select_past_event.
canonical_select_cursor(c) == Some(c)

\* What an engine does at a position of a log: the events after the filter
\* and the optimization, the events in the order of application, the
\* references after a confirmed undo, and what Accept returns.
EngineRun(optimized, applied, rs, selection) ==
    [optimized |-> optimized, applied |-> applied,
     refs |-> ApplyEvents(rs, applied, Len(applied)), selection |-> selection]

LegacyRun(events, c, rs, event_now) ==
    LET inverses == legacy_inverse_events(get_events_since_cursor(events, c), event_now)
    IN  EngineRun(inverses, inverses, rs, legacy_select_event_id(events, c))

CanonicalRun(events, c, rs, event_now, tx) ==
    LET suffix == get_events_since_cursor(events, c)
    IN  EngineRun(canonical_optimized_events(suffix, event_now, tx),
                  ComputeInverseEvents(suffix, event_now, tx), rs,
                  canonical_select_cursor(c))

\* The events of the logs given to the two engines.
EngineEvents ==
    { RefUpdateEvent(1, 1, HEAD, Some("o1"), Some("o2"), None),
      RefUpdateEvent(1, 1, HEAD, Some("o2"), Some("o1"), None),
      RefUpdateEvent(1, 1, HEAD, None, Some("o1"), None),
      RefUpdateEvent(1, 1, "refs/heads/b", None, Some("o1"), None),
      RefUpdateEvent(1, 1, "refs/heads/b", Some("o1"), Some("o2"), None),
      RefUpdateEvent(1, 1, "refs/heads/b", Some("o1"), None, None),
      RefUpdateEvent(1, 1, "refs/heads/b", None, None, None),
      CommitEvent(1, 1, "o1") }

\* A log, a position in it and the references of the repository.
InitEngines ==
    /\ AtRest
    /\ \E events \in SeqsUpTo(EngineEvents, MaxSeq) :
          \E c \in 0..Len(events), rs \in [RefNames -> OptOids] :
              pure_in = [events |-> events, cursor |-> c, refs |-> rs]
    /\ pure_out = <<>>

\* Both engines are run at the position, at the same time of day.
CallEngines(t, tx) ==
    /\ pure_out = <<>>
    /\ pure_out' = <<Call(t, tx,
                          [legacy |-> LegacyRun(pure_in.events, pure_in.cursor,
                                                pure_in.refs, t),
                           canonical |-> CanonicalRun(pure_in.events,
                                                      pure_in.cursor,
                                                      pure_in.refs, t, tx)])>>
    /\ UNCHANGED <<log, txs, refs, clock, pc, locals, pure_in, sel, tools>>

NextEngines == \E t \in Times, tx \in TxIds : CallEngines(t, tx)

SpecEngines == InitEngines /\ [][NextEngines]_vars
(* ------------------------------- claims -------------------------------- *)

\* undo_events has been called and has not yet returned to its caller.
InUndo == pc # "idle"

\* The events after the cursor, as they were when undo_events was called.
Suffix == get_events_since_cursor(pre.log, event_cursor)

NotHeadUpdate(event) == ~IsHeadUpdate(event)

SameExceptMeta(a, b) ==
    [a EXCEPT !.timestamp = 0, !.event_tx_id = 0]
        = [b EXCEPT !.timestamp = 0, !.event_tx_id = 0]

\* The first line of the input, trimmed, is exactly y or Y: some y or Y is
\* preceded by blanks only and followed by blanks up to the line's end.
AcceptedInput(input) ==
    /\ \A i \in 1..Len(input) : input[i] # "BAD" \/ \E j \in 1..(i - 1) : input[j] = Newline
    /\ \E i \in 1..Len(input) :
          /\ input[i] \in {"y", "Y"}
          /\ \A j \in 1..(i - 1) : input[j] = " "
          /\ \E e \in i..Len(input) :
                /\ \A j \in (i + 1)..e : input[j] = " "
                /\ e = Len(input) \/ input[e + 1] = Newline

Answered == user_input # None
Rejected == Answered /\ ~AcceptedInput(Unwrap(user_input))
Accepted == Answered /\ AcceptedInput(Unwrap(user_input))

\* C1 (as stated): once a confirmed undo to cursor c has succeeded, the view
\* replayed at present (head_oid, branches, and each commit's is_visible and
\* is_committed_by_user) equals the view replayed at c.
C1_RoundTrip ==
    (pc = "done" /\ exit_code = 0 /\ Accepted)
        => Replay(log, Len(log)) = Replay(log, event_cursor)

\* C2 (as stated): inverting an event twice gives the event back, in every
\* field except timestamp and event_tx_id.
C2_Involution ==
    Len(pure_out) = 2 => SameExceptMeta(pure_out[2].result[1], pure_in[1])

\* C2 (amended): inverting twice gives the event back up to timestamp and
\* event_tx_id for Hide, Unhide and Rewrite; for a RefUpdate also up to the
\* message, which becomes None; and for Commit(oid) it gives Unhide(oid).
C2_InvolutionAmended ==
    Len(pure_out) = 2 =>
        LET e == pure_in[1]
            twice == pure_out[2].result[1]
        IN  CASE e.type = "commit" ->
                    SameExceptMeta(twice, UnhideEvent(0, 0, e.commit_oid))
              [] e.type = "ref-move" ->
                    SameExceptMeta(twice, [e EXCEPT !.message = None])
              [] OTHER -> SameExceptMeta(twice, e)

C2_Witness ==
    /\ Len(pure_out) = 2
    /\ pure_in[1].type = "rewrite"
    /\ pure_in[1].old_commit_oid # pure_in[1].new_commit_oid
    /\ pure_out[2].result[1].timestamp = 6
    /\ pure_out[1].result[1].timestamp = 5

\* The table of inverses, with the metadata of the undo.
ExpectedInverse(e, t, tx) ==
    CASE e.type = "commit" -> HideEvent(t, tx, e.commit_oid)
      [] e.type = "unhide" -> HideEvent(t, tx, e.commit_oid)
      [] e.type = "hide" -> UnhideEvent(t, tx, e.commit_oid)
      [] e.type = "rewrite" -> RewriteEvent(t, tx, e.new_commit_oid, e.old_commit_oid)
      [] e.type = "ref-move" ->
            RefUpdateEvent(t, tx, e.ref_name, e.new_ref, e.old_ref, None)

\* C3: every inverse event of a call of undo_events is the inverse the table
\* gives for an event of the suffix, stamped with the time of the call and
\* with the id of the one "undo" transaction the call opened.
C3_InverseTable ==
    InUndo =>
        LET kept == SelectSeq(Reverse(Suffix), KeepForInversion)
            expected == [i \in 1..Len(kept) |->
                            ExpectedInverse(kept[i], now, event_tx_id)]
        IN  /\ inverse_events = SortByKey(optimize_inverse_events(expected))
            /\ \A i \in 1..Len(inverse_events) :
                  /\ inverse_events[i].timestamp = now
                  /\ inverse_events[i].event_tx_id = event_tx_id
            /\ event_tx_id = Len(pre.txs) + 1
            /\ txs[event_tx_id] = "undo"

C3_Witness ==
    /\ pc = "apply"
    /\ Len(inverse_events) = 3
    /\ \E i \in 1..3 : inverse_events[i].type = "rewrite"
    /\ \E i \in 1..3 : inverse_events[i].type = "hide"
    /\ \E j \in 1..Len(Suffix) :
          Suffix[j].type = "ref-move" /\ Suffix[j].message # None

\* The elements of s at the positions in I, in order.
RestrictTo(s, I) ==
    LET n == Cardinality(I)
        at == CHOOSE f \in [1..n -> I] : \A a, b \in 1..n : a < b => f[a] < f[b]
    IN  [k \in 1..n |-> s[at[k]]]

HeadPositions(s) == {i \in 1..Len(s) : IsHeadUpdate(s[i])}

\* Every position but those of the HEAD updates before the last one.
KeptPositions(s) ==
    {i \in 1..Len(s) : IsHeadUpdate(s[i]) => \A j \in HeadPositions(s) : j <= i}

\* C4: optimize_inverse_events(S) is S without its HEAD updates other than
\* the last: the other events keep their order, and the last HEAD update
\* keeps its place among them.
C4_OptimizeKeepsLastHead ==
    pure_out # <<>> =>
        pure_out[1].result = RestrictTo(pure_in, KeptPositions(pure_in))

C4_Witness ==
    /\ pure_out # <<>>
    /\ Len(pure_in) = 3
    /\ IsHeadUpdate(pure_in[1])
    /\ ~IsHeadUpdate(pure_in[2])
    /\ IsHeadUpdate(pure_in[3])
    /\ pure_in[1] # pure_in[3]
    /\ pure_out[1].result = <<pure_in[2], pure_in[3]>>

\* C5: no inverse event of undo_events is a HEAD update with new_ref = None,
\* the application loop never deletes HEAD, and a HEAD that was set when
\* undo_events was called stays set.
C5_NeverDeletesHead ==
    InUndo =>
        /\ \A i \in 1..Len(inverse_events) :
              IsHeadUpdate(inverse_events[i]) => IsSome(inverse_events[i].new_ref)
        /\ \A k \in 1..Len(ops) :
              ops[k].op \in {"delete", "warn"} => ops[k].event.ref_name # HEAD
        /\ IsSome(pre.refs[HEAD]) => IsSome(refs[HEAD])

C5_Witness ==
    /\ pc = "done"
    /\ exit_code = 0
    /\ Len(ops) >= 2
    /\ \E j \in 1..Len(Suffix) : IsCreateHead(Suffix[j])

\* C6: in the inverse events undo_events applies, the HEAD updates come
\* first and the other events keep the order they had after inversion and
\* optimization; a checkout is the first thing the loop does, done while no
\* reference has changed and no event has been appended.
C6_HeadFirstStable ==
    InUndo =>
        LET unsorted == optimize_inverse_events(
                            InvertSuffix(Suffix, now, event_tx_id))
        IN  /\ \A i, j \in 1..Len(inverse_events) :
                  (i < j /\ IsHeadUpdate(inverse_events[j]))
                      => IsHeadUpdate(inverse_events[i])
            /\ SelectSeq(inverse_events, NotHeadUpdate)
                  = SelectSeq(unsorted, NotHeadUpdate)
            /\ SelectSeq(inverse_events, IsHeadUpdate)
                  = SelectSeq(unsorted, IsHeadUpdate)
            /\ \A k \in 1..Len(ops) : ops[k].op = "checkout" => k = 1
            /\ (pc = "apply" /\ idx <= Len(inverse_events)
                    /\ IsHeadUpdate(inverse_events[idx]))
                  => (ops = <<>> /\ refs = pre.refs /\ log = pre.log)

C6_Witness ==
    /\ pc = "done"
    /\ Len(ops) = 3
    /\ ops[1].op = "checkout"
    /\ ops[2].op = "delete"
    /\ ops[3].op = "add_events"
    /\ IsHeadUpdate(Suffix[2])

LastLine == out[Len(out)]

\* C7: undo_events prompts only on a non-empty inverse set; it goes on to
\* apply the inverse events exactly when the first line of the input,
\* trimmed, is y or Y, and otherwise prints "Aborted.", returns 1 and has
\* applied nothing.
C7_ConfirmOnlyOnY ==
    Answered =>
        /\ inverse_events # <<>>
        /\ IF AcceptedInput(Unwrap(user_input))
           THEN /\ pc \in {"apply", "done", "error"}
                /\ \A k \in 1..Len(out) : out[k] # Line("Aborted.")
                /\ pc = "done" => (exit_code = 0 /\ Len(ops) = Len(inverse_events))
           ELSE /\ pc = "done"
                /\ LastLine = Line("Aborted.")
                /\ exit_code = 1
                /\ ops = <<>>
                /\ log = pre.log
                /\ refs = pre.refs

C7_Witness ==
    /\ pc = "done"
    /\ user_input = Some(<<" ", "Y", " ", Newline>>)
    /\ exit_code = 0
    /\ Len(ops) = 2

\* C8 (as stated): after a rejected prompt the output ends with "Aborted.",
\* the exit code is 1, the persistent event store is what it was before the
\* call, and no reference has changed.
C8_StoreUnchanged ==
    Rejected =>
        /\ LastLine = Line("Aborted.")
        /\ exit_code = 1
        /\ <<log, txs>> = <<pre.log, pre.txs>>
        /\ refs = pre.refs

\* C8 (amended): after a rejected prompt the output ends with "Aborted.",
\* the exit code is 1, the event rows are what they were before the call and
\* no reference has changed; the store has gained one row, that of the
\* "undo" transaction the call opened.
C8_EventRowsUnchanged ==
    Rejected =>
        /\ LastLine = Line("Aborted.")
        /\ exit_code = 1
        /\ log = pre.log
        /\ txs = Append(pre.txs, "undo")
        /\ refs = pre.refs

C8_Witness ==
    /\ Rejected
    /\ pc = "done"
    /\ user_input = Some(<<"n", Newline>>)
    /\ Len(inverse_events) = 3
    /\ IsSome(refs["refs/heads/b"])

\* C9: the inverse set is empty exactly when every event after the cursor is
\* a create-HEAD event (none, at present); then undo_events has printed the
\* "No undo actions to apply" line only, has returned 0, has read no input,
\* and has changed no reference and appended no event.
C9_EmptyInverseSet ==
    InUndo =>
        /\ inverse_events = <<>>
              <=> \A j \in 1..Len(Suffix) : IsCreateHead(Suffix[j])
        /\ inverse_events = <<>> =>
              /\ pc = "done"
              /\ out = <<Line("No undo actions to apply, exiting.")>>
              /\ exit_code = 0
              /\ user_input = None
              /\ ops = <<>>
              /\ refs = pre.refs
              /\ log = pre.log

C9_Witness ==
    /\ pc = "done"
    /\ inverse_events = <<>>
    /\ Len(Suffix) = 1
    /\ event_cursor = 2

\* The numbered descriptions in the output, in the order they were printed.
Listed == SelectSeq(out, LAMBDA line : line.text = "numbered")

\* C10: the numbered description printed before the prompt lists the inverse
\* events once each, numbered from 1, in the order the loop then takes them;
\* on success every listed event has been taken, the empty ones included,
\* and the count printed last is the number of listed events, with exit
\* code 0.
C10_ListedIsApplied ==
    (InUndo /\ inverse_events # <<>>) =>
        /\ Len(Listed) = Len(inverse_events)
        /\ \A i \in 1..Len(Listed) :
              /\ Listed[i].num = i
              /\ Listed[i].desc = describe_event(inverse_events[i])
        /\ \A i \in 1..Len(out) :
              out[i].text = "numbered" =>
                  \E j \in (i + 1)..Len(out) : out[j] = Line("Confirm? [yN] ")
        /\ Len(ops) <= Len(Listed)
        /\ \A k \in 1..Len(ops) : Listed[k].desc = describe_event(ops[k].event)
        /\ (pc = "done" /\ Accepted) =>
              /\ Len(ops) = Len(Listed)
              /\ LastLine = AppliedLine(Len(Listed))
              /\ exit_code = 0

C10_Witness ==
    /\ pc = "done"
    /\ exit_code = 0
    /\ Len(ops) = 3
    /\ ops[2].op = "nothing"
    /\ ops[1].op = "checkout"
    /\ LastLine = AppliedLine(3)


\* undo_events has returned to its caller after the user confirmed.
Returned == pc \in {"done", "error"} /\ Accepted

\* The live repository is what the view replayed at present says it is.
ViewAgrees(events, repository) ==
    LET view == Replay(events, Len(events))
    IN  /\ view.head_oid = repository[HEAD]
        /\ \A n \in BranchNames : view.branches[n] = repository[n]

\* C11 (as stated): a confirmed undo does not stop at the first inverse event
\* whose operation fails: when it returns, no inverse event after the failing
\* one is left unapplied.
C11_ContinuesAfterError ==
    Returned => idx >= Len(inverse_events)

\* The loop has warned about an absent reference at its k-th event.
WarnedAt(k) == k \in 1..Len(ops) /\ ops[k].op = "warn"

\* C12: applying RefUpdate(name, Some(_), None), name # HEAD, when the
\* reference is absent writes the warning, changes no reference and no row
\* of the store, and the loop goes on with the next inverse event; a call
\* whose loop reaches its end after a warning has taken every inverse event
\* and returns 0.
C12_WarnAndContinue ==
    /\ [][(Applying("delete") /\ inverse_events[idx].ref_name # HEAD
            /\ refs[inverse_events[idx].ref_name] = None)
           => /\ out' = Append(out, WarnLine(inverse_events[idx].ref_name))
              /\ refs' = refs
              /\ store' = store
              /\ pc' = "apply"
              /\ idx' = idx + 1
              /\ inverse_events' = inverse_events]_vars
    /\ []((pc = "done" /\ \E k \in 1..Len(ops) : WarnedAt(k))
            => /\ exit_code = 0
               /\ Len(ops) = Len(inverse_events)
               /\ LastLine = AppliedLine(Len(inverse_events)))

C12_Witness ==
    /\ pc = "done"
    /\ exit_code = 0
    /\ WarnedAt(1)
    /\ Len(ops) = 2
    /\ ops[2].op = "add_events"
    /\ out[Len(out) - 1] = WarnLine("refs/heads/b")

\* C13 (as stated): every change a confirmed undo makes is recorded in the
\* log: if the view replayed at present agreed with the live repository when
\* undo_events was called, it agrees with it when the undo has succeeded.
C13_UndoIsLogged ==
    (pc = "done" /\ exit_code = 0 /\ Accepted /\ ViewAgrees(pre.log, pre.refs))
        => ViewAgrees(log, refs)

(* -------------------------- claims: the selector ----------------------- *)

N == Len(log)

CursorMessages == {"Init", "Next", "Previous", "SetEventReplayerCursor"}

\* The cursor a message leaves when it is applied to the cursor c.
CursorAfterMessage(c, msg) ==
    CASE msg.type = "Next" -> advance_cursor_by_transaction(log, c, 1)
      [] msg.type = "Previous" -> advance_cursor_by_transaction(log, c, -1)
      [] msg.type = "SetEventReplayerCursor" -> make_cursor(log, msg.event_id)
      [] OTHER -> c

\* The cursor after the messages msgs[1..k], starting from c.
RECURSIVE CursorAfter(_, _, _)
CursorAfter(c, msgs, k) ==
    IF k = 0 THEN c
    ELSE CursorAfterMessage(CursorAfter(c, msgs, k - 1), msgs[k])

IsRecv(i) == i \in 1..Len(trace) /\ trace[i].kind = "recv"

SelReturned == sel_pc = "returned"

\* C14: select_past_event returns Some(c) exactly when the last message it
\* consumed is Accept, c being the cursor reached from present by the
\* messages consumed before it; it returns None when Quit is consumed, and
\* nothing is consumed after a Quit or an Accept.
C14_SelectorResult ==
    /\ \A i \in 1..Len(Consumed) :
          Consumed[i] \in {MsgQuit, MsgSelectEventIdAndQuit} => i = Len(Consumed)
    /\ SelReturned =>
          LET n == Len(Consumed)
          IN  /\ IsSome(sel_result) <=> (n > 0 /\ Consumed[n] = MsgSelectEventIdAndQuit)
              /\ IsSome(sel_result) =>
                    Unwrap(sel_result) = CursorAfter(N, Consumed, n - 1)
              /\ (n > 0 /\ Consumed[n] = MsgQuit) => sel_result = None

C14_Witness ==
    /\ SelReturned
    /\ sel_result = Some(1)
    /\ N = 3
    /\ Consumed = <<MsgInit, MsgPrevious, MsgGoToEvent, MsgSelectEventIdAndQuit>>
    /\ main_rx = <<>>

\* C15: between two consumed messages there is a repaint, a message whose
\* handling has reached the top of the loop again has been followed by one,
\* and Init, Next, Previous and SetCursor are followed at once by the redraw
\* for the new cursor, and that by the repaint.
C15_OneMessageThenRepaint ==
    /\ \A i \in 1..Len(trace), j \in 1..Len(trace) :
          (i < j /\ IsRecv(i) /\ IsRecv(j)) =>
              \E k \in (i + 1)..(j - 1) : trace[k].kind = "refresh"
    /\ \A i \in 1..Len(trace) :
          (IsRecv(i) /\ sel_pc = "loop") =>
              \E k \in (i + 1)..Len(trace) : trace[k].kind = "refresh"
    /\ \A i \in 1..Len(trace) :
          (IsRecv(i) /\ trace[i].msg.type \in CursorMessages) =>
              /\ i + 1 <= Len(trace) =>
                    /\ trace[i + 1].kind = "redraw"
                    /\ trace[i + 1].cursor
                          = CursorAfterMessage(trace[i].cursor, trace[i].msg)
              /\ i + 2 <= Len(trace) => trace[i + 2].kind = "refresh"

C15_Witness ==
    /\ sel_pc = "loop"
    /\ Consumed = <<MsgInit, MsgPrevious, MsgHelp, MsgNext>>
    /\ N = 2
    /\ cursor = 2
    /\ trace[Len(trace)].kind = "refresh"

\* C16: the messages are consumed in the order they were sent, none lost and
\* none twice: those consumed, then those in the channel, are those sent;
\* and the UI is stepped only when the poll found the channel empty.
C16_FifoAndPumpOnlyWhenEmpty ==
    /\ Consumed \o main_rx = sent
    /\ \A i \in 1..Len(trace) : trace[i].kind = "step" => trace[i].pending = 0

C16_Witness ==
    /\ sent = <<MsgInit, MsgPrevious, MsgNext, MsgHelp>>
    /\ Consumed = sent
    /\ Len(SelectSeq(trace, LAMBDA t : t.kind = "step")) = 1
    /\ sel_pc = "loop"

\* C17: when select_past_event has returned None, undo_events is not
\* called: no transaction is opened, no event appended, nothing printed or
\* read, no reference changed, and undo returns 0.
C17_CancelHasNoEffect ==
    (SelReturned /\ sel_result = None) =>
        /\ pc = "idle"
        /\ store = <<pre.log, pre.txs>>
        /\ refs = pre.refs
        /\ out = <<>>
        /\ user_input = None
        /\ inverse_events = <<>>
        /\ exit_code \in {-1, 0}

C17_Witness ==
    /\ SelReturned
    /\ sel_result = None
    /\ exit_code = 0
    /\ Consumed = <<MsgInit, MsgPrevious, MsgQuit>>
    /\ cursor = 1
    /\ N = 3

\* The loop of select_past_event takes its next step.
SelLoop ==
    \/ SelRecv
    \/ OnInit
    \/ OnNext
    \/ OnPrevious
    \/ OnSetEventReplayerCursor
    \/ OnGoToEvent
    \/ OnHelp
    \/ OnQuit
    \/ OnSelectEventIdAndQuit
    \/ SelRefresh
    \/ SelExit

\* The loop runs on as long as it can; the UI is free to deliver nothing.
SpecSelectLive == SpecSelect /\ WF_vars(SelLoop)

Enqueued(msg) == \E i \in 1..Len(main_rx) : main_rx[i] = msg

\* C18: once a Quit or an Accept is in the channel the loop ends, and
\* select_past_event gives a result only after an Accept was consumed (the
\* cursor), or once the UI is no longer running (None): after a consumed
\* Quit, or after the UI stopped in a step.
C18_SelectorTerminates ==
    /\ (Enqueued(MsgQuit) \/ Enqueued(MsgSelectEventIdAndQuit))
          ~> (sel_pc \in {"returned", "error"})
    /\ [](SelReturned =>
            LET n == Len(Consumed)
            IN  \/ n > 0 /\ Consumed[n] = MsgSelectEventIdAndQuit
                \/ /\ ~is_running
                   /\ \/ n > 0 /\ Consumed[n] = MsgQuit
                      \/ trace # <<>> /\ trace[Len(trace)].kind = "step")

C18_Witness ==
    /\ SelReturned
    /\ Consumed = <<MsgInit, MsgNext, MsgQuit>>
    /\ main_rx = <<MsgSelectEventIdAndQuit>>
    /\ sel_result = None

\* C19: the selector's cursor is always within [0, N]; SetCursor(event_id)
\* leaves min(event_id, N) for event_id >= 0 and max(0, N + event_id) for
\* event_id < 0; Next at present stays at present, Previous at 0 stays at 0.
C19_CursorInRange ==
    /\ cursor \in 0..N
    /\ IsSome(sel_result) => Unwrap(sel_result) \in 0..N
    /\ \A i \in 1..(Len(trace) - 1) :
          (IsRecv(i) /\ trace[i + 1].kind = "redraw") =>
              LET before == trace[i].cursor
                  after == trace[i + 1].cursor
                  msg == trace[i].msg
              IN  /\ after \in 0..N
                  /\ (msg.type = "SetEventReplayerCursor" /\ msg.event_id >= 0)
                        => after = Min(msg.event_id, N)
                  /\ (msg.type = "SetEventReplayerCursor" /\ msg.event_id < 0)
                        => after = Max(0, N + msg.event_id)
                  /\ (msg.type = "Next" /\ before = N) => after = N
                  /\ (msg.type = "Previous" /\ before = 0) => after = 0

C19_Witness ==
    /\ N = 3
    /\ Consumed = <<MsgInit, MsgGoToEvent, SetEventReplayerCursor(-5), MsgPrevious>>
    /\ cursor = 0
    /\ sel_pc = "refresh"

\* c lies on a transaction boundary, the start of the log counted as one.
OnBoundary(c) == c = 0 \/ IsBoundary(log, c)

\* In the trace, a Next consumed at i and a Previous consumed at j right
\* after it, both redrawn.
NextThenPrevious(i, j) ==
    /\ IsRecv(i) /\ trace[i].msg = MsgNext
    /\ IsRecv(j) /\ trace[j].msg = MsgPrevious
    /\ i < j /\ j < Len(trace)
    /\ \A k \in (i + 1)..(j - 1) : ~IsRecv(k)
    /\ trace[j + 1].kind = "redraw"

\* C20 (as stated): for every cursor c on a transaction boundary, 0 and N
\* included, advancing by +1 and then by -1 gives c, and in the selector a
\* Next followed by a Previous returns the cursor to c.
C20_NextPreviousRoundTrip ==
    /\ \A c \in 0..N :
          OnBoundary(c) =>
              advance_cursor_by_transaction(
                  log, advance_cursor_by_transaction(log, c, 1), -1) = c
    /\ \A i \in 1..Len(trace), j \in 1..Len(trace) :
          (NextThenPrevious(i, j) /\ OnBoundary(trace[i].cursor)) =>
              trace[j + 1].cursor = trace[i].cursor

\* C20 (amended): the round trip holds for every boundary c before present
\* (and at present when the log is empty); at present, c = N > 0, advancing
\* by +1 stays at N and advancing by -1 then gives the boundary before N.
C20_RoundTripBeforePresent ==
    /\ \A c \in 0..N :
          OnBoundary(c) =>
              advance_cursor_by_transaction(
                  log, advance_cursor_by_transaction(log, c, 1), -1)
                = IF c < N \/ N = 0 THEN c
                  ELSE advance_cursor_by_transaction(log, N, -1)
    /\ \A i \in 1..Len(trace), j \in 1..Len(trace) :
          (NextThenPrevious(i, j) /\ OnBoundary(trace[i].cursor)) =>
              trace[j + 1].cursor
                = IF trace[i].cursor < N \/ N = 0 THEN trace[i].cursor
                  ELSE advance_cursor_by_transaction(log, N, -1)
    /\ N > 0 => advance_cursor_by_transaction(log, N, -1) < N

C20_Witness ==
    /\ N = 3
    /\ Consumed = <<MsgInit, MsgPrevious, MsgNext, MsgPrevious>>
    /\ trace[Len(trace)].kind = "redraw"
    /\ cursor = 1

(* ---------------------------------------------------------------------- *)
(* The info panel of the selector.                                         *)
(* ---------------------------------------------------------------------- *)

\* The events of a transaction, in log order.
EventsOfTx(tx) == SelectSeq(log, LAMBDA e : e.event_tx_id = tx)

\* The positions at or before c where a transaction ends.
EndsBefore(c) == {b \in 1..c : IsBoundary(log, b)}

NoPreviousEvents == <<Line("There are no previous available events.")>>

IsRedraw(i) == trace[i].kind = "redraw"

\* C21: on every redraw at cursor c the info panel shows exactly the events
\* of the most recent transaction that ends at or before c: all of them, in
\* log order, numbered from 1, under the transaction id they share; where no
\* transaction ends at or before c, at cursor 0 in particular, it shows the
\* "no previous available events" line.
C21_InfoPanelShowsTransaction ==
    \A i \in 1..Len(trace) :
        IsRedraw(i) =>
            LET c == trace[i].cursor
                info == trace[i].info
            IN  /\ c = 0 => info = NoPreviousEvents
                /\ EndsBefore(c) = {} => info = NoPreviousEvents
                /\ EndsBefore(c) # {} =>
                      LET last == CHOOSE b \in EndsBefore(c) :
                                      \A x \in EndsBefore(c) : b >= x
                          tx == log[last].event_tx_id
                          events == EventsOfTx(tx)
                      IN  /\ Len(info) = Len(events) + 1
                          /\ info[1].text = "Repo after transaction"
                          /\ info[1].num = tx
                          /\ \A k \in 1..Len(events) :
                                info[k + 1]
                                    = NumberedLine(k, describe_event(events[k]))

\* The panel has listed a transaction of two events, and after a move to
\* cursor 0 the "no previous available events" line.
C21_Witness ==
    \E i, j \in 1..Len(trace) :
        /\ i < j
        /\ IsRedraw(i)
        /\ Len(trace[i].info) = 3
        /\ IsRedraw(j)
        /\ trace[j].cursor = 0
        /\ trace[j].info = NoPreviousEvents

(* ---------------------------------------------------------------------- *)
(* What the selector hands to undo_events.                                 *)
(* ---------------------------------------------------------------------- *)

\* The inverses of events [c, N), newest first, stamped with t and tx.
InverseOfSuffix(events, c, t, tx) ==
    [i \in 1..(Len(events) - c) |->
        ExpectedInverse(events[Len(events) - i + 1], t, tx)]

\* C22: the events undone depend only on the accepted cursor. Browsing
\* changes neither the log nor the transactions, and once undo_events is
\* called its cursor is the accepted one and its inverse events are the
\* inverses of events [c, N) of the log the session was opened on, newest
\* first, stamped with the time and the transaction of the call: whatever
\* messages were consumed before the accept.
C22_UndoDependsOnlyOnAcceptedCursor ==
    /\ log = pre.log
    /\ ~InUndo => txs = pre.txs
    /\ InUndo =>
          /\ SelReturned
          /\ sel_result = Some(event_cursor)
          /\ event_tx_id = Len(pre.txs) + 1
          /\ inverse_events
                = InverseOfSuffix(pre.log, event_cursor, now, event_tx_id)

\* undo_events runs at cursor 1 of a log of three events after a session
\* that browsed (Previous, Help) before the accept.
C22_Witness ==
    /\ InUndo
    /\ N = 3
    /\ event_cursor = 1
    /\ Len(inverse_events) = 2
    /\ Consumed = <<MsgInit, MsgPrevious, MsgHelp, MsgSelectEventIdAndQuit>>

(* ---------------------------------------------------------------------- *)
(* The roots of the smartlog.                                              *)
(* ---------------------------------------------------------------------- *)

ReverseOrdering(o) ==
    IF o = Less THEN Greater ELSE IF o = Greater THEN Less ELSE Equal

\* C23: the root comparator is a total order: a commit compares Equal to
\* itself, the reversed pair compares the reverse way, and Less is
\* transitive.
C23_ComparatorIsTotalOrder ==
    sl_done =>
        \A a, b, c \in GraphOids :
            /\ compare(sl_repo, a, a) = Equal
            /\ compare(sl_repo, a, b) = ReverseOrdering(compare(sl_repo, b, a))
            /\ (compare(sl_repo, a, b) = Less /\ compare(sl_repo, b, c) = Less)
                  => compare(sl_repo, a, c) = Less

\* The nodes of the graph without in-graph parent.
GraphRoots == {oid \in DOMAIN sl_graph : sl_graph[oid].parent = None}

\* The merge base of both commits is found, and it is a.
KnownAncestor(a, b) ==
    /\ a # b
    /\ find_commit(sl_repo, a)
    /\ find_commit(sl_repo, b)
    /\ get_merge_base_oid(sl_repo, a, b) = [ok |-> TRUE, value |-> Some(a)]

\* C24: split_commit_graph_by_roots returns exactly the nodes without
\* in-graph parent, each once, and a root that is the merge base of itself
\* and another root comes before that root, for any number of roots.
C24_RootsInTopologicalOrder ==
    sl_done =>
        /\ Range(sl_root_oids) = GraphRoots
        /\ Len(sl_root_oids) = Cardinality(GraphRoots)
        /\ \A i, j \in 1..Len(sl_root_oids) :
              KnownAncestor(sl_root_oids[i], sl_root_oids[j]) => i < j

\* The order by commit timestamp, by OID between equal timestamps.
TimestampOrder(a, b) ==
    IF cmp(sl_repo.time[a], sl_repo.time[b]) # Equal
    THEN cmp(sl_repo.time[a], sl_repo.time[b])
    ELSE cmp(a, b)

\* C25: when both roots are found and the lookup of their merge base fails,
\* the comparator gives an ordering all the same, and it is the order of the
\* commit timestamps, the OIDs breaking a tie.
C25_LookupFailureFallsBackToTimestamp ==
    \A a, b \in Range(sl_root_oids) :
        (/\ a # b
         /\ find_commit(sl_repo, a)
         /\ find_commit(sl_repo, b)
         /\ ~get_merge_base_oid(sl_repo, a, b).ok)
            => compare(sl_repo, a, b) = TimestampOrder(a, b)

(* ---------------------------------------------------------------------- *)
(* The lines of the smartlog.                                              *)
(* ---------------------------------------------------------------------- *)

\* The glyph field for (is_main, is_visible, is_head).
GlyphTable ==
    (<<FALSE, FALSE, FALSE>> :> "commit_hidden")
    @@ (<<FALSE, FALSE, TRUE>> :> "commit_hidden_head")
    @@ (<<FALSE, TRUE, FALSE>> :> "commit_visible")
    @@ (<<FALSE, TRUE, TRUE>> :> "commit_visible_head")
    @@ (<<TRUE, FALSE, FALSE>> :> "commit_main_hidden")
    @@ (<<TRUE, FALSE, TRUE>> :> "commit_main_hidden_head")
    @@ (<<TRUE, TRUE, FALSE>> :> "commit_main")
    @@ (<<TRUE, TRUE, TRUE>> :> "commit_main_head")

IsCommitLine(l) == l.cursor # ""

\* C26: every commit line holds exactly one cursor glyph, then a space and
\* the metadata text of its commit, with nothing before the glyph but the
\* connectors of the enclosing nodes; the glyph is the field that belongs to
\* (is_main, is_visible, is_head), a different field for each of the eight
\* triples; is_head holds exactly for the node whose commit id is head_oid,
\* and exactly its line is bold.
C26_CursorGlyphAndBold ==
    sl_done =>
        /\ Cardinality({GlyphTable[t] : t \in DOMAIN GlyphTable}) = 8
        /\ \A i \in 1..Len(sl_lines) :
              LET l == sl_lines[i]
              IN  IF IsCommitLine(l)
                  THEN /\ l.oid \in DOMAIN sl_graph
                       /\ l.cursor
                             = GlyphTable[<<sl_graph[l.oid].is_main,
                                            sl_graph[l.oid].is_visible,
                                            Some(l.oid) = sl_head_oid>>]
                       /\ l.plain = ""
                       /\ l.bold <=> Some(l.oid) = sl_head_oid
                  ELSE ~l.bold

\* The checked-out commit is drawn, bold, below another node, and a hidden
\* main commit is drawn too.
C26_Witness ==
    /\ sl_done
    /\ \E i, j \in 1..Len(sl_lines) :
          /\ sl_lines[i].cursor = "commit_visible_head"
          /\ sl_lines[i].bold
          /\ sl_lines[i].prefix # <<>>
          /\ sl_lines[j].cursor = "commit_main_hidden"

\* No common ancestor.
Unrelated(a, b) == merge_base(sl_repo, a, b) = None

\* The line just before the line of the k-th root.
LineBeforeRoot(k) ==
    LET at == CHOOSE i \in 1..Len(sl_lines) :
                  /\ IsCommitLine(sl_lines[i])
                  /\ sl_lines[i].oid = sl_root_oids[k]
    IN  sl_lines[at - 1]

\* C27 as stated: a root after the first that is unrelated to the root
\* before it is preceded by an empty line, whether or not its commit has
\* parents.
C27_UnrelatedRootsBlankLine ==
    sl_done =>
        \A k \in 2..Len(sl_root_oids) :
            Unrelated(sl_root_oids[k], sl_root_oids[k - 1])
                => LineBeforeRoot(k) = PlainLine("")

\* C27: a root after the first that is unrelated to the root before it is
\* preceded by an empty line when its commit has no parents, and by a
\* vertical-ellipsis line when its commit has parents.
C27_SeparatorByParentCount ==
    sl_done =>
        \A k \in 2..Len(sl_root_oids) :
            Unrelated(sl_root_oids[k], sl_root_oids[k - 1])
                => LineBeforeRoot(k)
                      = IF sl_repo.parent[sl_root_oids[k]] = NoParent
                        THEN PlainLine("")
                        ELSE PlainLine("vertical_ellipsis")

\* Three roots, each unrelated to the one before: one after the first
\* without parents, one with a parent outside the graph.
C27_Witness ==
    /\ sl_done
    /\ Len(sl_root_oids) = 3
    /\ \A k \in 2..3 : Unrelated(sl_root_oids[k], sl_root_oids[k - 1])
    /\ \E k \in 2..3 : LineBeforeRoot(k) = PlainLine("")
    /\ \E k \in 2..3 : LineBeforeRoot(k) = PlainLine("vertical_ellipsis")

(* ---------------------------------------------------------------------- *)
(* The hook file.                                                          *)
(* ---------------------------------------------------------------------- *)

StartLine == <<UPDATE_MARKER_START>>
EndLine == <<UPDATE_MARKER_END>>

\* The managed block: the START line, the script, the END marker and its
\* newline.
ManagedBlock(body) ==
    <<UPDATE_MARKER_START, NL>> \o body \o <<UPDATE_MARKER_END, NL>>

\* The i-th run was on a regular hook file that existed, and returned Ok.
UpdatedExisting(i) ==
    /\ i \in 1..Len(hk_results)
    /\ hk_hook = "RegularHook"
    /\ hk_results[i] = "Ok"
    /\ hk_files[i] # None

\* The text with every START..END region (from a START line to the first
\* END line after it) replaced by the managed block, and every other line
\* kept.
RECURSIVE ReplaceRegions(_, _, _)
ReplaceRegions(ls, i, body) ==
    IF i > Len(ls) THEN <<>>
    ELSE LET ends == {j \in (i + 1)..Len(ls) : ls[j] = EndLine}
         IN  IF ls[i] = StartLine /\ ends # {}
             THEN ManagedBlock(body)
                  \o ReplaceRegions(ls,
                                    (CHOOSE j \in ends : \A x \in ends : j <= x) + 1,
                                    body)
             ELSE ls[i] \o <<NL>> \o ReplaceRegions(ls, i + 1, body)

LastMarkerBefore(ls, i) ==
    LET markers == {j \in 1..(i - 1) : ls[j] \in {StartLine, EndLine}}
    IN  IF markers = {} THEN 0
        ELSE CHOOSE j \in markers : \A x \in markers : j >= x

\* What becomes of the i-th line: a START line becomes the managed block;
\* an END line, and a line with a START line before it and no END line in
\* between, go; any other line stays.
PieceFor(ls, i, body) ==
    IF ls[i] = StartLine THEN ManagedBlock(body)
    ELSE IF ls[i] = EndLine THEN <<>>
    ELSE IF LastMarkerBefore(ls, i) # 0
            /\ ls[LastMarkerBefore(ls, i)] = StartLine
    THEN <<>>
    ELSE ls[i] \o <<NL>>

C29_InstallTwiceIsInstallOnce ==
    (/\ hk_hook = "RegularHook"
     /\ Len(hk_results) >= 2
     /\ hk_results[1] = "Ok"
     /\ hk_results[2] = "Ok")
        => hk_files[3] = hk_files[2]

\* The text begins with the shebang line.
HasShebang(text) == Len(text) >= 2 /\ SubSeq(text, 1, 2) = <<SHEBANG, NL>>

\* The block occurs in the text at the start of a line.
HasBlock(text, block) ==
    \E k \in 1..Len(text) :
        /\ k = 1 \/ text[k - 1] = NL
        /\ k + Len(block) - 1 <= Len(text)
        /\ SubSeq(text, k, k + Len(block) - 1) = block

\* The text holds the START line, the body (with or without a newline
\* added to it) and the END line.
HasManagedRegion(text, body) ==
    \/ HasBlock(text, ManagedBlock(body))
    \/ HasBlock(text, ManagedBlock(body \o <<NL>>))

\* C30: after an installation of a regular hook that returned Ok, whatever
\* the file was before, the file begins with the shebang line and holds the
\* script between the START line and the END line.
C30_ShebangAndManagedRegion ==
    \A i \in 1..Len(hk_results) :
        (hk_hook = "RegularHook" /\ hk_results[i] = "Ok") =>
            /\ HasShebang(Unwrap(hk_files[i + 1]))
            /\ HasManagedRegion(Unwrap(hk_files[i + 1]), hk_contents)
\* The START lines of the text with no END line after them.
UnmatchedStarts(ls) ==
    {s \in 1..Len(ls) :
        /\ ls[s] = StartLine
        /\ \A j \in (s + 1)..Len(ls) : ls[j] # EndLine}

\* C31: when update_hook_contents runs on an existing regular hook file
\* that has a START line with no END line after it, a warning is logged
\* and every line of the file after that START line is a line of the file
\* afterwards.
C31_UnterminatedRegionKeepsContent ==
    \A i \in 1..Len(hk_results) :
        UpdatedExisting(i) =>
            LET ls == str_lines(Unwrap(hk_files[i]))
                after == str_lines(Unwrap(hk_files[i + 1]))
            IN  \A s \in UnmatchedStarts(ls) :
                    /\ hk_warned[i]
                    /\ \A j \in (s + 1)..Len(ls) :
                           \E k \in 1..Len(after) : after[k] = ls[j]
MULTI_HOOK_PATH == "hooks_multi/<type>.d/00_local_branchless"
REGULAR_HOOK_PATH == "<hooks dir>/<type>"

\* The files written by the i-th run.
WrittenBy(i) == {hk_writes[k].path : k \in {x \in 1..Len(hk_writes) : hk_writes[x].run = i}}

\* C32 as stated: a run that returns Ok writes one file, which is
\* 00_local_branchless in hooks_multi/<type>.d/ exactly when that directory
\* existed before the run, and the regular hook file otherwise.
C32_MultiHookWhenTypeDirExists ==
    \A i \in 1..Len(hk_results) :
        hk_results[i] = "Ok" =>
            WrittenBy(i) = IF HOOK_TYPE_D \in hk_dirs[i]
                           THEN {MULTI_HOOK_PATH}
                           ELSE {REGULAR_HOOK_PATH}

\* C32: a run that returns Ok writes one file, which is 00_local_branchless
\* in hooks_multi/<type>.d/ exactly when the directory hooks_multi existed
\* before the run (whether or not it held <type>.d/, which the run then
\* creates), and the regular hook file otherwise.
C32_MultiHookWhenHooksMultiExists ==
    \A i \in 1..Len(hk_results) :
        hk_results[i] = "Ok" =>
            /\ WrittenBy(i) = IF HOOKS_MULTI \in hk_dirs[i]
                              THEN {MULTI_HOOK_PATH}
                              ELSE {REGULAR_HOOK_PATH}
            /\ HOOKS_MULTI \in hk_dirs[i] => HOOK_TYPE_D \in hk_dirs[i + 1]

\* hooks_multi existed without <type>.d/, and the run wrote the multi-hook
\* file with the shebang and the script.
C32_Witness ==
    /\ hk_dirs[1] = {HOOKS_MULTI}
    /\ Len(hk_results) >= 1
    /\ hk_results[1] = "Ok"
    /\ WrittenBy(1) = {MULTI_HOOK_PATH}
    /\ hk_contents # <<>>
    /\ hk_files[2] = Some(<<SHEBANG, NL>> \o hk_contents)
(* ---------------------------------------------------------------------- *)
(* References after an undo.                                               *)
(* ---------------------------------------------------------------------- *)

\* The updates of a reference among the events, in their order.
UpdatesOf(events, name) ==
    SelectSeq(events, LAMBDA e : IsRefUpdate(e) /\ e.ref_name = name)

\* Each update starts from where the one before it ended.
ChainedConsistently(updates) ==
    \A i \in 1..(Len(updates) - 1) : updates[i + 1].old_ref = updates[i].new_ref

\* The update records a deletion of a reference that was not there.
IsEmptyUpdate(event) == event.old_ref = None /\ event.new_ref = None

\* undo_events was confirmed, has applied every inverse event and returns.
UndoCompleted ==
    /\ pc = "done"
    /\ IsSome(user_input)
    /\ Confirmed(Unwrap(user_input))
    /\ idx > Len(inverse_events)

\* The events undone by the call: the suffix [c, N) of the log it found.
UndoneSuffix == get_events_since_cursor(pre.log, event_cursor)

Checkouts == SelectSeq(ops, LAMBDA o : o.op = "checkout")

\* The updates of HEAD in the suffix whose old_ref is present, in log order.
HeadUpdatesFrom == SelectSeq(UpdatesOf(UndoneSuffix, HEAD), LAMBDA e : IsSome(e.old_ref))

\* C34: undo_events runs at most one checkout, whatever the number of HEAD
\* updates in the suffix; its target is the old_ref of the earliest HEAD
\* update of the suffix whose old_ref is present, which is where HEAD was at
\* cursor c when the log has it there; a confirmed undo that applies all its
\* events runs that checkout exactly when the suffix has such an update, and
\* leaves HEAD at the target.
C34_OneCheckoutToEarliestHead ==
    /\ Len(Checkouts) <= 1
    /\ \A i \in 1..Len(Checkouts) :
          /\ HeadUpdatesFrom # <<>>
          /\ Checkouts[i].event.new_ref = HeadUpdatesFrom[1].old_ref
          /\ IsSome(Replay(pre.log, event_cursor).head_oid)
                => Checkouts[i].event.new_ref = Replay(pre.log, event_cursor).head_oid
    /\ UndoCompleted =>
          IF HeadUpdatesFrom = <<>> THEN Checkouts = <<>> /\ refs[HEAD] = pre.refs[HEAD]
          ELSE Len(Checkouts) = 1 /\ refs[HEAD] = HeadUpdatesFrom[1].old_ref

\* Three moves of HEAD were undone by one checkout, which put HEAD back
\* where it was before the first of them.
C34_Witness ==
    /\ UndoCompleted
    /\ Len(UpdatesOf(UndoneSuffix, HEAD)) = 3
    /\ Len(HeadUpdatesFrom) = 3
    /\ Len(Checkouts) = 1
    /\ refs[HEAD] = HeadUpdatesFrom[1].old_ref
    /\ pre.refs[HEAD] # refs[HEAD]
(* ---------------------------------------------------------------------- *)
(* optimize_inverse_events as a function.                                  *)
(* ---------------------------------------------------------------------- *)

\* s can be had from t by removing elements of t.
RECURSIVE IsSubsequence(_, _)
IsSubsequence(s, t) ==
    IF s = <<>> THEN TRUE
    ELSE IF t = <<>> THEN FALSE
    ELSE IF Head(s) = Head(t) THEN IsSubsequence(Tail(s), Tail(t))
    ELSE IsSubsequence(s, Tail(t))

HeadUpdateCount(events) == Len(SelectSeq(events, IsHeadUpdate))

\* C35: for every event sequence S, optimize_inverse_events(S) is S with
\* events removed and none changed, holds at most one update of HEAD, is S
\* itself when S has at most one update of HEAD, and is its own
\* optimization.
C35_OptimizeIdempotentAndOnlyRemoves ==
    /\ Len(pure_out) >= 1 =>
          /\ IsSubsequence(pure_out[1].result, pure_in)
          /\ HeadUpdateCount(pure_out[1].result) <= 1
          /\ HeadUpdateCount(pure_in) <= 1 => pure_out[1].result = pure_in
    /\ Len(pure_out) >= 2 => pure_out[2].result = pure_out[1].result

\* A sequence with two different updates of HEAD around a commit was
\* optimized twice, and the first optimization removed an update.
C35_Witness ==
    /\ Len(pure_in) = 3
    /\ HeadUpdateCount(pure_in) = 2
    /\ pure_in[1] # pure_in[3]
    /\ ~IsHeadUpdate(pure_in[2])
    /\ Len(pure_out) = 2
    /\ Len(pure_out[1].result) = 2
(* ---------------------------------------------------------------------- *)
(* The transaction of an undo.                                             *)
(* ---------------------------------------------------------------------- *)

\* undo_events has been called and has not returned to its caller.
InUndoEvents == pc # "idle"

\* undo_events ends with "No undo actions to apply, exiting." or "Aborted.".
EndsWithoutApplying ==
    /\ pc = "done"
    /\ \/ out = <<Line("No undo actions to apply, exiting.")>>
       \/ out[Len(out)] = Line("Aborted.")

\* C36: from its start on, a call of undo_events has added exactly one row
\* to the transaction table, with the message "undo"; the row's id is the
\* one the inverse events were computed with; and when the call ends with
\* "No undo actions to apply, exiting." or with "Aborted.", the event rows
\* are those found and none of them refers to the new id.
C36_OneUndoTransactionPerCall ==
    InUndoEvents =>
        /\ txs = Append(pre.txs, "undo")
        /\ event_tx_id = Len(txs)
        /\ \A i \in 1..Len(inverse_events) :
              inverse_events[i].event_tx_id = event_tx_id
        /\ EndsWithoutApplying =>
              /\ log = pre.log
              /\ \A i \in 1..Len(log) : log[i].event_tx_id # event_tx_id

\* A call on a log of three events, with inverse events to apply, that the
\* user did not confirm: the table has the three rows of the hooks and the
\* row of the undo.
C36_Witness ==
    /\ pc = "done"
    /\ out # <<>>
    /\ out[Len(out)] = Line("Aborted.")
    /\ inverse_events # <<>>
    /\ Len(pre.txs) = 3
    /\ txs = Append(pre.txs, "undo")
(* ---------------------------------------------------------------------- *)
(* The lines of a forest.                                                  *)
(* ---------------------------------------------------------------------- *)

\* The graph is a forest: the children of a node that are in the graph are
\* the nodes whose parent is that node.
IsForest(g) ==
    \A oid \in DOMAIN g :
        g[oid].children \cap DOMAIN g
            = {c \in DOMAIN g : g[c].parent = Some(oid)}

\* The positions of the commit lines of a commit in the output.
CommitLinesOf(oid) ==
    {i \in 1..Len(sl_lines) : IsCommitLine(sl_lines[i]) /\ sl_lines[i].oid = oid}

\* The position of the (one) commit line of a commit.
CommitLineOf(oid) == CHOOSE i \in CommitLinesOf(oid) : TRUE

\* The key of sort_by_key on the children: a is before b.
ChildKeyBefore(a, b) ==
    \/ sl_repo.time[a] < sl_repo.time[b]
    \/ sl_repo.time[a] = sl_repo.time[b] /\ a < b

\* C37: for a graph that is a forest, render_graph returns exactly one
\* commit line for every node and no other commit line; the line of a node
\* is after the line of its parent; the children of a node are in ascending
\* order of (commit time, oid string); at most one line is marked as HEAD.
C37_ForestOneLinePerNode ==
    (sl_done /\ IsForest(sl_graph)) =>
        /\ \A oid \in DOMAIN sl_graph : Cardinality(CommitLinesOf(oid)) = 1
        /\ \A i \in 1..Len(sl_lines) :
              IsCommitLine(sl_lines[i]) => sl_lines[i].oid \in DOMAIN sl_graph
        /\ \A oid \in DOMAIN sl_graph :
              IsSome(sl_graph[oid].parent)
                  => CommitLineOf(Unwrap(sl_graph[oid].parent)) < CommitLineOf(oid)
        /\ \A a, b \in DOMAIN sl_graph :
              (/\ IsSome(sl_graph[a].parent)
               /\ sl_graph[a].parent = sl_graph[b].parent
               /\ ChildKeyBefore(a, b))
                  => CommitLineOf(a) < CommitLineOf(b)
        /\ Cardinality({i \in 1..Len(sl_lines) :
                           \/ sl_lines[i].bold
                           \/ sl_lines[i].cursor \in {"commit_hidden_head",
                                "commit_visible_head", "commit_main_hidden_head",
                                "commit_main_head"}}) <= 1

\* A forest of three nodes was rendered: a node with two children, the
\* younger child with the smaller id, and HEAD at one of the children.
C37_Witness ==
    /\ sl_done
    /\ IsForest(sl_graph)
    /\ DOMAIN sl_graph = GraphOids
    /\ sl_graph[2].parent = Some(1)
    /\ sl_graph[3].parent = Some(1)
    /\ sl_repo.time[3] < sl_repo.time[2]
    /\ sl_head_oid = Some(3)
    /\ CommitLineOf(1) < CommitLineOf(3)
    /\ CommitLineOf(3) < CommitLineOf(2)
    /\ sl_lines[CommitLineOf(3)].bold
(* ---------------------------------------------------------------------- *)
(* src/undo.rs and src/commands/undo.rs.                                   *)
(* ---------------------------------------------------------------------- *)

\* The two engines have been run on the log.
EnginesRan == pure_out # <<>>

LegacyResult == pure_out[1].result.legacy
CanonicalResult == pure_out[1].result.canonical

====
